---- MODULE Spec2Model ----
(***************************************************************************)
(* Model of the recursive image decomposition service                      *)
(* (backend/services/image_editability_service.py).                        *)
(*                                                                         *)
(* Four specifications share this module:                                  *)
(*   SpecGeom    - CoordinateMapper / BBox as pure functions               *)
(*   SpecRecurse - _should_recurse_into_element as a pure function         *)
(*   Spec        - make_image_editable with its recursion, as a call stack *)
(*   SpecBatch   - make_multi_images_editable (serial and thread pool)     *)
(*                                                                         *)
(* Python floats are modelled as exact rationals <<num, den>> in lowest    *)
(* terms with den > 0; rounding error is outside the model.                *)
(***************************************************************************)
EXTENDS Integers, Sequences, FiniteSets, TLC

VARIABLES
    g_b,        \* SpecGeom: local_bbox argument
    g_p,        \* SpecGeom: parent_bbox argument
    g_s,        \* SpecGeom: local_image_size argument
    g_ps,       \* SpecGeom: parent_image_size argument
    g_fwd,      \* SpecGeom: outcome of local_to_global(g_b, g_p, g_s, g_ps)
    g_back,     \* SpecGeom: outcome of global_to_local(g_fwd, g_p, g_s, g_ps)
    r_elem,     \* SpecRecurse: the element argument
    r_files,    \* SpecRecurse: the files that exist under mineru_result_dir
    r_psize,    \* SpecRecurse: parent_image_size argument
    r_cfg,      \* SpecRecurse: the service's min_image_size and min_image_area
    r_out,      \* SpecRecurse: outcome of _should_recurse_into_element
    svc,        \* Spec: the service's max_depth, inpainting_service and
                \*       baidu_table_ocr_provider (set or not)
    stack,      \* Spec: the active make_image_editable calls, innermost last
    result,     \* Spec: outcome of the top-level make_image_editable call
    calls,      \* Spec: history, every make_image_editable call by image_id
    repairs,    \* Spec: history, the box lists passed to the repair backend
    b_in,       \* SpecBatch: image_paths, parallel and max_workers
    b_pc,       \* SpecBatch: where make_multi_images_editable is
    b_futures,  \* SpecBatch: the state of the future of each image
    b_frames,   \* SpecBatch: the make_image_editable frames of each worker's call
    b_order,    \* SpecBatch: the indices as_completed has yielded, in order
    b_results,  \* SpecBatch: the results list
    b_out,      \* SpecBatch: outcome of make_multi_images_editable
    k_service,  \* SpecClean: whether self.inpainting_service is set
    k_elems,    \* SpecClean: the elements argument
    k_size,     \* SpecClean: the pixel size of the image at image_path
    k_out,      \* SpecClean: outcome of _generate_clean_background
    p_made,     \* SpecRegistry: how the registry was built and from which arguments
    p_reg,      \* SpecRegistry: the InpaintProviderRegistry
    p_pc,       \* SpecRegistry: "new", "ready", "failed" or "resolved"
    p_tag,      \* SpecRegistry: the element type handed to the registry
    p_out,      \* SpecRegistry: outcome of resolving p_tag
    i_pc,       \* SpecRetry: where inpaint_with_retry is
    i_max_retries, \* SpecRetry: the max_retries argument
    i_attempt,  \* SpecRetry: the loop variable attempt
    i_try,      \* SpecRetry: the decorator's try number within the attempt
    i_requests, \* SpecRetry: requests sent to the Gemini API so far
    i_log,      \* SpecRetry: history, every try of inpaint_image
    i_out       \* SpecRetry: outcome of inpaint_with_retry

geomVars == <<g_b, g_p, g_s, g_ps, g_fwd, g_back>>
recVars == <<r_elem, r_files, r_psize, r_cfg, r_out>>
treeVars == <<svc, stack, result, calls, repairs>>
batchVars == <<b_in, b_pc, b_futures, b_frames, b_order, b_results, b_out>>

cleanVars == <<k_service, k_elems, k_size, k_out>>

regVars == <<p_made, p_reg, p_pc, p_tag, p_out>>

retryVars == <<i_pc, i_max_retries, i_attempt, i_try, i_requests, i_log, i_out>>

vars == <<geomVars, recVars, treeVars, batchVars, cleanVars, regVars, retryVars>>

\* Outcomes of a call: not made yet, returned a value, raised an exception.
Pending == [kind |-> "pending"]
Returned(v) == [kind |-> "returned", val |-> v]
Raised(e) == [kind |-> "raised", exc |-> e]

\* Python None.
None == "None"

(***************************************************************************)
(* Exact rational arithmetic standing for Python float arithmetic.         *)
(***************************************************************************)
Abs(n) == IF n < 0 THEN -n ELSE n

RECURSIVE GCD(_, _)
GCD(a, b) == IF b = 0 THEN a ELSE GCD(b, a % b)

\* The rational n/d in lowest terms, d # 0.
Rat(n, d) ==
    LET g == GCD(Abs(n), Abs(d))
        s == IF d < 0 THEN -1 ELSE 1
    IN  <<(s * n) \div g, (s * d) \div g>>

\* float(n) of an int.
Flt(n) == <<n, 1>>

RAdd(a, b) == Rat(a[1] * b[2] + b[1] * a[2], a[2] * b[2])
RSub(a, b) == Rat(a[1] * b[2] - b[1] * a[2], a[2] * b[2])
RMul(a, b) == Rat(a[1] * b[1], a[2] * b[2])
RNeg(a) == <<-a[1], a[2]>>
\* a / b for b # 0 (the callers raise ZeroDivisionError before using it on 0).
RDiv(a, b) == Rat(a[1] * b[2], a[2] * b[1])
RLt(a, b) == a[1] * b[2] < b[1] * a[2]
RLe(a, b) == a[1] * b[2] <= b[1] * a[2]
RIsZero(a) == a[1] = 0

\* The exception a float or int division by zero raises in Python.
ZeroDivisionError == "ZeroDivisionError"

(***************************************************************************)
(* BBox                                                                    *)
(***************************************************************************)
BBox(x0, y0, x1, y1) == [x0 |-> x0, y0 |-> y0, x1 |-> x1, y1 |-> y1]

\* A box with int corners.
IntBox(x0, y0, x1, y1) == BBox(Flt(x0), Flt(y0), Flt(x1), Flt(y1))

width(b) == RSub(b.x1, b.x0)
height(b) == RSub(b.y1, b.y0)
area(b) == RMul(width(b), height(b))

scale_swapped(b, scale_x, scale_y) ==
    BBox(RMul(b.x0, scale_y), RMul(b.y0, scale_x),
         RMul(b.x1, scale_y), RMul(b.y1, scale_x))

scale(b, scale_x, scale_y) ==
    BBox(RMul(b.x0, scale_x), RMul(b.y0, scale_y),
         RMul(b.x1, scale_x), RMul(b.y1, scale_y))

translate(b, offset_x, offset_y) ==
    BBox(RAdd(b.x0, offset_x), RAdd(b.y0, offset_y),
         RAdd(b.x1, offset_x), RAdd(b.y1, offset_y))

(***************************************************************************)
(* CoordinateMapper.  A size is a pair <<width, height>> of ints.  The     *)
(* outcome is Returned(box), or Raised(ZeroDivisionError) when a divisor   *)
(* is zero.                                                                *)
(***************************************************************************)
local_to_global_parent_size(local_bbox, parent_bbox, local_image_size, parent_image_size) ==
    IF local_image_size[1] = 0 \/ local_image_size[2] = 0
    THEN Raised(ZeroDivisionError)
    ELSE LET scale_x == RDiv(Flt(parent_image_size[1]), Flt(local_image_size[1]))
             scale_y == RDiv(Flt(parent_image_size[2]), Flt(local_image_size[2]))
             scaled_bbox == scale(local_bbox, scale_x, scale_y)
         IN  Returned(translate(scaled_bbox, parent_bbox.x0, parent_bbox.y0))

local_to_global(local_bbox, parent_bbox, local_image_size, parent_image_size) ==
    IF local_image_size[1] = 0 \/ local_image_size[2] = 0
    THEN Raised(ZeroDivisionError)
    ELSE LET scale_x == RDiv(width(parent_bbox), Flt(local_image_size[1]))
             scale_y == RDiv(height(parent_bbox), Flt(local_image_size[2]))
             scaled_bbox == scale(local_bbox, scale_x, scale_y)
         IN  Returned(translate(scaled_bbox, parent_bbox.x0, parent_bbox.y0))

global_to_local_same_scale(global_bbox, parent_bbox, local_image_size, parent_image_size) ==
    LET translated_bbox ==
            translate(global_bbox, RNeg(parent_bbox.x0), RNeg(parent_bbox.y0))
    IN  IF local_image_size[1] = 0 \/ local_image_size[2] = 0
        THEN Raised(ZeroDivisionError)
        ELSE Returned(scale(translated_bbox,
                            RDiv(width(parent_bbox), Flt(local_image_size[1])),
                            RDiv(height(parent_bbox), Flt(local_image_size[2]))))

global_to_local(global_bbox, parent_bbox, local_image_size, parent_image_size) ==
    LET translated_bbox ==
            translate(global_bbox, RNeg(parent_bbox.x0), RNeg(parent_bbox.y0))
    IN  IF RIsZero(width(parent_bbox)) \/ RIsZero(height(parent_bbox))
        THEN Raised(ZeroDivisionError)
        ELSE LET scale_x == RDiv(Flt(local_image_size[1]), width(parent_bbox))
                 scale_y == RDiv(Flt(local_image_size[2]), height(parent_bbox))
             IN  Returned(scale(translated_bbox, scale_x, scale_y))

(***************************************************************************)
(* EditableElement.  A path is a sequence of components (<<"images",       *)
(* "a.jpg">> is images/a.jpg); NoPath stands for None and for "", which    *)
(* `not element.image_path` treats alike.  An optional box is <<>> for     *)
(* None and <<b>> for the box b; an optional size is <<>> or the pair; the *)
(* image id 0 is None.                                                     *)
(***************************************************************************)
NoPath == <<>>
NoBox == <<>>
NoSize == <<>>
NoId == 0

ElementId_root_prefix(image_id, kind, idx) ==
    [image_id |-> IF image_id = 0 THEN 0 ELSE 1, kind |-> kind, idx |-> idx]

\* f"{image_id}_{idx}" (kind "") and f"{image_id}_cell_{idx}" (kind "cell").
ElementId(image_id, kind, idx) == [image_id |-> image_id, kind |-> kind, idx |-> idx]
NoElement == ElementId(NoId, "", 0)

EditableElement(element_id, element_type, bbox, bbox_global, image_path) ==
    [element_id |-> element_id,
     element_type |-> element_type,
     bbox |-> bbox,
     bbox_global |-> bbox_global,
     image_path |-> image_path,
     children |-> <<>>,
     inpainted_background |-> NoPath,
     resolved_image_path |-> NoPath,     \* metadata['resolved_image_path']
     child_mineru_result_dir |-> NoPath] \* metadata['child_mineru_result_dir']

(***************************************************************************)
(* ImageEditabilityService: recursion configuration and                    *)
(* _should_recurse_into_element.                                           *)
(***************************************************************************)
DEFAULT_MAX_DEPTH == 3
DEFAULT_MIN_IMAGE_SIZE == 200
DEFAULT_MIN_IMAGE_AREA == 40000

max_child_coverage_ratio_95 == Rat(95, 100)

\* self.max_child_coverage_ratio = 0.85
max_child_coverage_ratio == Rat(85, 100)

RecursiveTypes == {"image", "figure", "chart", "table"}

\* The three places the sub-image file is looked for, relative to
\* mineru_result_dir, in the order tried.
possible_paths(image_path) ==
    <<image_path,
      <<"images", image_path[Len(image_path)]>>,
      <<image_path[Len(image_path)]>>>>

\* The first of possible_paths that exists, NoPath when none does.
resolve_image_path(image_path, files) ==
    IF image_path = NoPath THEN NoPath
    ELSE LET pp == possible_paths(image_path)
             hits == {k \in 1..Len(pp) : pp[k] \in files}
         IN  IF hits = {} THEN NoPath
             ELSE pp[CHOOSE k \in hits : \A j \in hits : k <= j]

coverage_ratio(bbox, parent_image_size) ==
    LET parent_area == parent_image_size[1] * parent_image_size[2]
    IN  IF parent_area > 0 THEN RDiv(area(bbox), Flt(parent_area)) ELSE Flt(0)

should_recurse_no_coverage_check(element, files, parent_image_size, min_image_size, min_image_area) ==
    /\ element.children = <<>>
    /\ element.element_type \in RecursiveTypes
    /\ ~(RLt(width(element.bbox), Flt(min_image_size))
          \/ RLt(height(element.bbox), Flt(min_image_size)))
    /\ ~RLt(area(element.bbox), Flt(min_image_area))
    /\ element.image_path # NoPath
    /\ resolve_image_path(element.image_path, files) # NoPath

should_recurse_one_side_enough(element, files, parent_image_size, min_image_size, min_image_area) ==
    /\ element.children = <<>>
    /\ element.element_type \in RecursiveTypes
    /\ ~(RLt(width(element.bbox), Flt(min_image_size))
          /\ RLt(height(element.bbox), Flt(min_image_size)))
    /\ ~RLt(area(element.bbox), Flt(min_image_area))
    /\ ~RLt(max_child_coverage_ratio,
             coverage_ratio(element.bbox, parent_image_size))
    /\ element.image_path # NoPath
    /\ resolve_image_path(element.image_path, files) # NoPath

\* The value _should_recurse_into_element returns.
should_recurse_into_element(element, files, parent_image_size, min_image_size, min_image_area) ==
    /\ element.children = <<>>
    /\ element.element_type \in RecursiveTypes
    /\ ~(RLt(width(element.bbox), Flt(min_image_size))
          \/ RLt(height(element.bbox), Flt(min_image_size)))
    /\ ~RLt(area(element.bbox), Flt(min_image_area))
    /\ ~RLt(max_child_coverage_ratio,
             coverage_ratio(element.bbox, parent_image_size))
    /\ element.image_path # NoPath
    /\ resolve_image_path(element.image_path, files) # NoPath

after_should_recurse_last_path(element, files, parent_image_size, min_image_size, min_image_area) ==
    IF should_recurse_into_element(element, files, parent_image_size,
                                   min_image_size, min_image_area)
    THEN [element EXCEPT !.resolved_image_path =
                             possible_paths(element.image_path)[3]]
    ELSE element

\* The element after the call: metadata['resolved_image_path'] is set when
\* the call returns True.
after_should_recurse(element, files, parent_image_size, min_image_size, min_image_area) ==
    IF should_recurse_into_element(element, files, parent_image_size,
                                   min_image_size, min_image_area)
    THEN [element EXCEPT !.resolved_image_path =
                             resolve_image_path(element.image_path, files)]
    ELSE element

(***************************************************************************)
(* SpecGeom: the mapper applied to arguments drawn from small sets.        *)
(***************************************************************************)
LocalCoords == {10, 50}
ParentCoords == {100, 300, 400}
SizeCoords == {0, 150, 200}
ParentImageSizes == {<<300, 200>>, <<1000, 800>>}

IntBoxes(C) ==
    {IntBox(x0, y0, x1, y1) : x0 \in C, y0 \in C, x1 \in C, y1 \in C}

\* Boxes keep x1 >= x0 and y1 >= y0.
OrderedBoxes(C) ==
    {b \in IntBoxes(C) : RLe(b.x0, b.x1) /\ RLe(b.y0, b.y1)}

\* The variables of a specification that is not running keep these values.
GeomIdle ==
    /\ g_b = None /\ g_p = None /\ g_s = None /\ g_ps = None
    /\ g_fwd = Pending /\ g_back = Pending

RecIdle ==
    /\ r_elem = None /\ r_files = {} /\ r_psize = None /\ r_cfg = None
    /\ r_out = Pending

TreeIdle ==
    /\ svc = None /\ stack = <<>> /\ result = Pending
    /\ calls = <<>> /\ repairs = <<>>

CleanIdle ==
    /\ k_service = FALSE /\ k_elems = <<>> /\ k_size = <<1, 1>> /\ k_out = Pending

RegistryIdle ==
    /\ p_made = None /\ p_reg = None /\ p_pc = "idle" /\ p_tag = None /\ p_out = Pending

RetryIdle ==
    /\ i_pc = "idle" /\ i_max_retries = 0 /\ i_attempt = 0 /\ i_try = 0
    /\ i_requests = 0 /\ i_log = <<>> /\ i_out = Pending

BatchIdle ==
    /\ b_in = None /\ b_pc = "idle" /\ b_futures = <<>> /\ b_order = <<>>
    /\ b_frames = <<>>
    /\ b_results = <<>> /\ b_out = Pending

GeomInit ==
    /\ RecIdle
    /\ TreeIdle
    /\ BatchIdle
    /\ CleanIdle
    /\ RegistryIdle
    /\ RetryIdle
    /\ g_b \in OrderedBoxes(LocalCoords)
    /\ g_p \in OrderedBoxes(ParentCoords)
    /\ g_s \in SizeCoords \X SizeCoords
    /\ g_ps \in ParentImageSizes
    /\ g_fwd = Pending
    /\ g_back = Pending

CallLocalToGlobal ==
    /\ g_fwd.kind = "pending"
    /\ g_fwd' = local_to_global(g_b, g_p, g_s, g_ps)
    /\ UNCHANGED <<g_b, g_p, g_s, g_ps, g_back, recVars, treeVars, batchVars, cleanVars, regVars, retryVars>>

CallGlobalToLocal ==
    /\ g_fwd.kind = "returned"
    /\ g_back.kind = "pending"
    /\ g_back' = global_to_local(g_fwd.val, g_p, g_s, g_ps)
    /\ UNCHANGED <<g_b, g_p, g_s, g_ps, g_fwd, recVars, treeVars, batchVars, cleanVars, regVars, retryVars>>

GeomNext == CallLocalToGlobal \/ CallGlobalToLocal

SpecGeom == GeomInit /\ [][GeomNext]_vars

NonDegenerate(p) == ~RIsZero(width(p)) /\ ~RIsZero(height(p))

C8_ScaleThenTranslate ==
    g_fwd.kind = "returned" =>
        LET r == g_fwd.val
            sw == Flt(g_s[1])
            sh == Flt(g_s[2])
        IN  /\ RMul(RSub(r.x0, g_p.x0), sw) = RMul(g_b.x0, RSub(g_p.x1, g_p.x0))
            /\ RMul(RSub(r.x1, g_p.x0), sw) = RMul(g_b.x1, RSub(g_p.x1, g_p.x0))
            /\ RMul(RSub(r.y0, g_p.y0), sh) = RMul(g_b.y0, RSub(g_p.y1, g_p.y0))
            /\ RMul(RSub(r.y1, g_p.y0), sh) = RMul(g_b.y1, RSub(g_p.y1, g_p.y0))
            /\ (/\ g_b = IntBox(10, 10, 50, 50)
                /\ g_s = <<200, 150>>
                /\ g_p = IntBox(100, 100, 400, 300))
               => r = BBox(<<115, 1>>, <<340, 3>>, <<175, 1>>, <<500, 3>>)

C8_Witness ==
    /\ g_b = IntBox(10, 10, 50, 50)
    /\ g_s = <<200, 150>>
    /\ g_p = IntBox(100, 100, 400, 300)
    /\ g_ps = <<1000, 800>>
    /\ g_fwd.kind = "returned"
    /\ g_fwd.val = BBox(<<115, 1>>, <<340, 3>>, <<175, 1>>, <<500, 3>>)

\* C9: with a parent_bbox of zero width or zero height, local_to_global and
\* global_to_local fail with an error instead of returning a box.
C9_DegenerateParentFails ==
    ~NonDegenerate(g_p) =>
        /\ g_fwd.kind # "returned"
        /\ g_back.kind # "returned"

(***************************************************************************)
(* SpecRecurse: _should_recurse_into_element applied to arguments drawn    *)
(* from small sets.  parent_image_size is the size of an opened image, so  *)
(* both of its components are positive.                                    *)
(***************************************************************************)
ElementTypes == {"text", "image", "figure", "chart", "table", "table_cell"}
ElementExtents == {199, 200, 340, 500}
ElementOrigins == {0, 10}
ElementImagePaths == {NoPath, <<"images", "a.jpg">>, <<"a.jpg">>}
DiskFiles == {<<"images", "a.jpg">>, <<"a.jpg">>}
FrameSizes == {<<600, 600>>, <<520, 520>>, <<400, 500>>}
MinImageAreas == {DEFAULT_MIN_IMAGE_AREA, 100000}

RecInit ==
    /\ GeomIdle
    /\ TreeIdle
    /\ BatchIdle
    /\ CleanIdle
    /\ RegistryIdle
    /\ RetryIdle
    /\ \E t \in ElementTypes, x0 \in ElementOrigins,
          w \in ElementExtents, h \in ElementExtents,
          ip \in ElementImagePaths, hasChildren \in BOOLEAN :
          LET e == EditableElement("e", t, IntBox(x0, 0, x0 + w, h),
                                   IntBox(x0, 0, x0 + w, h), ip)
          IN  r_elem = IF hasChildren
                       THEN [e EXCEPT !.children =
                               <<EditableElement("c", "text", IntBox(0, 0, 1, 1),
                                                 IntBox(0, 0, 1, 1), NoPath)>>]
                       ELSE e
    /\ r_files \in SUBSET DiskFiles
    /\ r_psize \in FrameSizes
    /\ r_cfg \in [min_image_size : {DEFAULT_MIN_IMAGE_SIZE},
                  min_image_area : MinImageAreas]
    /\ r_out = Pending

CallShouldRecurse ==
    /\ r_out.kind = "pending"
    /\ r_out' = Returned(should_recurse_into_element(
                    r_elem, r_files, r_psize,
                    r_cfg.min_image_size, r_cfg.min_image_area))
    /\ r_elem' = after_should_recurse(
                    r_elem, r_files, r_psize,
                    r_cfg.min_image_size, r_cfg.min_image_area)
    /\ UNCHANGED <<r_files, r_psize, r_cfg, geomVars, cleanVars, regVars, retryVars, treeVars, batchVars>>

RecNext == CallShouldRecurse

SpecRecurse == RecInit /\ [][RecNext]_vars

\* Integer corners of an element box with int corners.
ElemW(e) == e.bbox.x1[1] - e.bbox.x0[1]
ElemH(e) == e.bbox.y1[1] - e.bbox.y0[1]

\* The sub-image file of e is found at one of the places looked at.
Resolvable(e, files) ==
    /\ e.image_path # NoPath
    /\ \E k \in 1..3 : possible_paths(e.image_path)[k] \in files

\* C10: _should_recurse_into_element returns true exactly when the element has
\* no children, its type is image, figure, chart or table, its width and
\* height are >= min_image_size, its area is >= min_image_area, its area is
\* <= 0.85 of the parent frame's area, and its image_path resolves to an
\* existing file; a (0,0,500,500) container with a sub-image is a candidate
\* in a 600x600 frame and not in a 520x520 frame (min size 200, area 40000).
C10_CandidateExactly ==
    r_out.kind = "returned" =>
        /\ r_out.val <=>
              /\ Len(r_elem.children) = 0
              /\ r_elem.element_type \in {"image", "figure", "chart", "table"}
              /\ ElemW(r_elem) >= r_cfg.min_image_size
              /\ ElemH(r_elem) >= r_cfg.min_image_size
              /\ ElemW(r_elem) * ElemH(r_elem) >= r_cfg.min_image_area
              /\ 100 * ElemW(r_elem) * ElemH(r_elem) <= 85 * r_psize[1] * r_psize[2]
              /\ Resolvable(r_elem, r_files)
        /\ (/\ r_elem.bbox = IntBox(0, 0, 500, 500)
            /\ r_elem.element_type \in {"image", "figure", "chart", "table"}
            /\ Len(r_elem.children) = 0
            /\ Resolvable(r_elem, r_files)
            /\ r_cfg.min_image_size = 200 /\ r_cfg.min_image_area = 40000)
           => /\ r_psize = <<600, 600>> => r_out.val
              /\ r_psize = <<520, 520>> => ~r_out.val

C10_Witness ==
    /\ r_out.kind = "returned"
    /\ r_out.val
    /\ r_elem.bbox = IntBox(0, 0, 500, 500)
    /\ r_psize = <<600, 600>>
    /\ r_elem.resolved_image_path = <<"images", "a.jpg">>

\* Every check of _should_recurse_into_element but the coverage check and the
\* size check lets e through.
OtherwiseEligible(e, files) ==
    /\ Len(e.children) = 0
    /\ e.element_type \in RecursiveTypes
    /\ Resolvable(e, files)

\* C11: an element whose area divided by the parent frame's area is greater
\* than 0.85 is never a recursion candidate, whatever its type, size,
\* children and image_path are.
C11_OverCoverageNeverCandidate ==
    (/\ r_out.kind = "returned"
     /\ 100 * ElemW(r_elem) * ElemH(r_elem) > 85 * r_psize[1] * r_psize[2])
    => ~r_out.val

C11_Witness ==
    /\ r_out.kind = "returned"
    /\ ~r_out.val
    /\ OtherwiseEligible(r_elem, r_files)
    /\ ElemW(r_elem) = 500 /\ ElemH(r_elem) = 500
    /\ r_psize = <<520, 520>>
    /\ r_cfg.min_image_area = DEFAULT_MIN_IMAGE_AREA

\* C12: an element whose width is below min_image_size or whose height is
\* below min_image_size is never a recursion candidate, whatever its area,
\* type and image_path are.
C12_SmallSideNeverCandidate ==
    (/\ r_out.kind = "returned"
     /\ (ElemW(r_elem) < r_cfg.min_image_size
          \/ ElemH(r_elem) < r_cfg.min_image_size))
    => ~r_out.val

C12_Witness ==
    /\ r_out.kind = "returned"
    /\ ~r_out.val
    /\ OtherwiseEligible(r_elem, r_files)
    /\ ElemW(r_elem) = 199 /\ ElemH(r_elem) = 500
    /\ ElemW(r_elem) * ElemH(r_elem) >= r_cfg.min_image_area
    /\ r_psize = <<600, 600>>

(***************************************************************************)
(* Spec: make_image_editable.  Each active call is a frame of `stack`; a   *)
(* frame is at "start" before its steps 1-4 ran, at "loop" while           *)
(* _process_children_recursively iterates (i is the element it is at,      *)
(* 1-based), and at "assemble" when only step 6 is left.                   *)
(***************************************************************************)
EditableImage(image_id, image_path, width_, height_, elements, clean_background, mineru_result_dir, depth, parent_id, metadata) ==
    [image_id |-> image_id,
     image_path |-> image_path,
     width |-> width_,
     height |-> height_,
     elements |-> elements,
     clean_background |-> clean_background,
     mineru_result_dir |-> mineru_result_dir,
     depth |-> depth,
     parent_id |-> parent_id,
     metadata |-> metadata]          \* the set of keys of the metadata dict

\* The frame of a call of make_image_editable with these arguments; owner is
\* the element the call analyses the sub-image of (NoElement at the top).
Frame(image_id, image_path, depth, parent_id, parent_bbox, root_image_size, element_type, root_image_path, owner, file_size) ==
    [image_id |-> image_id,
     file_size |-> file_size,        \* the pixel size of the file at image_path
     image_path |-> image_path,
     depth |-> depth,
     parent_id |-> parent_id,
     parent_bbox |-> parent_bbox,
     root_image_size |-> root_image_size,
     element_type |-> element_type,
     root_image_path |-> root_image_path,
     owner |-> owner,
     width |-> 0,
     height |-> 0,
     elements |-> <<>>,
     clean_background |-> NoPath,
     mineru_result_dir |-> NoPath,
     files |-> {},
     extraction |-> "",              \* how the extraction of step 2-3 went
     table_img_size |-> NoSize,      \* the image_size the table OCR reported
     pc |-> "start",
     i |-> 1]

Top(stk) == stk[Len(stk)]
Pop(stk) == SubSeq(stk, 1, Len(stk) - 1)
ReplaceTop(stk, f) == [stk EXCEPT ![Len(stk)] = f]

(***************************************************************************)
(* _extract_elements_from_mineru.  A layout is "unreadable" (a file is     *)
(* missing or fails to load, or pdf_info is empty) or a record with the    *)
(* page_size and the para_blocks of the first page.  A block has a type, a *)
(* bbox (a sequence of 4 ints, anything else is skipped) and the           *)
(* image_path of its first span that has one (NoPath when none has).       *)
(***************************************************************************)
Block(type, bbox, image_path) == [type |-> type, bbox |-> bbox, image_path |-> image_path]

\* img_path of a block: only image and table blocks carry one, and it gets
\* the images/ prefix when it lacks it.
block_img_path(block) ==
    IF block.type \in {"image", "table"} /\ block.image_path # NoPath
    THEN IF block.image_path[1] = "images" THEN block.image_path
         ELSE <<"images">> \o block.image_path
    ELSE NoPath

to_global_bbox_root_size(local_bbox, parent_bbox, local_image_size, root_image_size) ==
    IF parent_bbox = NoBox
    THEN Returned(local_bbox)
    ELSE local_to_global(local_bbox, parent_bbox[1], root_image_size, root_image_size)

\* The global box of a local box: the local box itself at the root, else
\* its image under local_to_global (an outcome, it may be Raised).
to_global_bbox(local_bbox, parent_bbox, local_image_size, root_image_size) ==
    IF parent_bbox = NoBox
    THEN Returned(local_bbox)
    ELSE local_to_global(local_bbox, parent_bbox[1], local_image_size, root_image_size)

RECURSIVE mineru_blocks(_, _, _, _, _, _, _, _)
\* The loop over para_blocks from index idx (0-based) on, acc being the
\* elements appended so far; an exception ends the loop and the elements
\* appended before it are returned.
mineru_blocks(blocks, idx, acc, page_size, target_image_size, parent_bbox, root_image_size, image_id) ==
    IF idx >= Len(blocks) THEN acc
    ELSE
      LET block == blocks[idx + 1] IN
      IF Len(block.bbox) # 4
      THEN mineru_blocks(blocks, idx + 1, acc, page_size, target_image_size,
                         parent_bbox, root_image_size, image_id)
      ELSE
        LET scale_x == RDiv(Flt(target_image_size[1]), Flt(page_size[1]))
            scale_y == RDiv(Flt(target_image_size[2]), Flt(page_size[2]))
            local_bbox == BBox(RMul(Flt(block.bbox[1]), scale_x),
                               RMul(Flt(block.bbox[2]), scale_y),
                               RMul(Flt(block.bbox[3]), scale_x),
                               RMul(Flt(block.bbox[4]), scale_y))
            g == to_global_bbox(local_bbox, parent_bbox, target_image_size,
                                root_image_size)
        IN  IF g.kind = "raised" THEN acc
            ELSE mineru_blocks(
                   blocks, idx + 1,
                   Append(acc, EditableElement(ElementId(image_id, "", idx),
                                               block.type, local_bbox, g.val,
                                               block_img_path(block))),
                   page_size, target_image_size, parent_bbox, root_image_size,
                   image_id)

extract_elements_from_mineru(layout, target_image_size, parent_bbox, root_image_size, image_id) ==
    IF layout.kind = "unreadable" THEN <<>>
    ELSE IF layout.page_size[1] = 0 \/ layout.page_size[2] = 0 THEN <<>>
    ELSE mineru_blocks(layout.blocks, 0, <<>>, layout.page_size,
                       target_image_size, parent_bbox, root_image_size, image_id)

(***************************************************************************)
(* _extract_elements_from_baidu_ocr.  The OCR outcome is "raises" or a     *)
(* record with the cells and the image_size it reports (NoSize when it     *)
(* reports none).  A cell has a section, a text ("" when blank) and a bbox. *)
(***************************************************************************)
Cell(section, text, bbox) == [section |-> section, text |-> text, bbox |-> bbox]

shrink_pixels == 30

RECURSIVE SelectBody(_)
SelectBody(cells) ==
    IF cells = <<>> THEN <<>>
    ELSE IF cells[1].section = "body"
         THEN <<cells[1]>> \o SelectBody(Tail(cells))
         ELSE SelectBody(Tail(cells))

RECURSIVE baidu_cells(_, _, _, _, _, _, _)
baidu_cells(body_cells, idx, acc, table_img_size, parent_bbox, root_image_size, image_id) ==
    IF idx >= Len(body_cells) THEN acc
    ELSE
      LET cell == body_cells[idx + 1]
          cell_x0 == cell.bbox[1] + shrink_pixels
          cell_y0 == cell.bbox[2] + shrink_pixels
          cell_x1 == cell.bbox[3] - shrink_pixels
          cell_y1 == cell.bbox[4] - shrink_pixels
      IN
      IF cell.text = "" \/ cell_x1 <= cell_x0 \/ cell_y1 <= cell_y0
      THEN baidu_cells(body_cells, idx + 1, acc, table_img_size, parent_bbox,
                       root_image_size, image_id)
      ELSE
        LET local_bbox == IntBox(cell_x0, cell_y0, cell_x1, cell_y1)
            g == to_global_bbox(local_bbox, parent_bbox, table_img_size,
                                root_image_size)
        IN  IF g.kind = "raised" THEN acc
            ELSE baidu_cells(
                   body_cells, idx + 1,
                   Append(acc, EditableElement(ElementId(image_id, "cell", idx),
                                               "table_cell", local_bbox, g.val,
                                               NoPath)),
                   table_img_size, parent_bbox, root_image_size, image_id)

extract_elements_from_baidu_ocr(ocr, target_image_size, parent_bbox, root_image_size, image_id) ==
    IF ocr.kind = "raises" THEN <<>>
    ELSE LET table_img_size == IF ocr.image_size = NoSize
                               THEN target_image_size
                               ELSE ocr.image_size
         IN  baidu_cells(SelectBody(ocr.cells), 0, <<>>, table_img_size,
                         parent_bbox, root_image_size, image_id)

(***************************************************************************)
(* _collect_bboxes_from_elements and _generate_clean_background.           *)
(***************************************************************************)
collect_bboxes_global(elements) ==
    [k \in 1..Len(elements) |-> elements[k].bbox_global]

collect_bboxes_from_elements(elements) ==
    [k \in 1..Len(elements) |-> elements[k].bbox]

\* A box is dropped from the repair call when it covers more than this part
\* of the frame.
max_bbox_coverage == Rat(95, 100)

bbox_coverage(bbox, img_size) ==
    LET coverage_x == IF img_size[1] > 0
                      THEN RDiv(width(bbox), Flt(img_size[1])) ELSE Flt(0)
        coverage_y == IF img_size[2] > 0
                      THEN RDiv(height(bbox), Flt(img_size[2])) ELSE Flt(0)
    IN  RMul(coverage_x, coverage_y)

RECURSIVE filter_bboxes(_, _)
filter_bboxes(bboxes, img_size) ==
    IF bboxes = <<>> THEN <<>>
    ELSE IF RLt(max_bbox_coverage, bbox_coverage(bboxes[1], img_size))
         THEN filter_bboxes(Tail(bboxes), img_size)
         ELSE <<bboxes[1]>> \o filter_bboxes(Tail(bboxes), img_size)

expand_pixels == 10

\* What the repair backend does in one call of _generate_clean_background:
\* "image" a repaired image, "none" no image, "raises" an exception.  The
\* image opened in step 1 stays readable and the output directory can be
\* created, so the backend is reached.
RepairOutcomes == {"image", "none", "raises"}

\* The outcome of _generate_clean_background: the path it returns (NoPath
\* for None) and the backend calls it made.
generate_clean_background_uncaught(elements, img_size, image_id, outcome) ==
    LET bboxes == filter_bboxes(collect_bboxes_from_elements(elements), img_size)
        call == [image_id |-> image_id, elements |-> elements,
                 bboxes |-> bboxes, expand_pixels |-> expand_pixels,
                 outcome |-> outcome]
    IN  [clean_background |->
             IF outcome = "image"
             THEN <<"editable_images", image_id, "clean_background.png">>
             ELSE NoPath,
         raised |-> outcome = "raises",
         made |-> <<call>>]

\* The call record keeps the elements argument and what the backend did;
\* raised: an exception leaves the method (none does, the except clause
\* turns every one into None).
generate_clean_background(elements, img_size, image_id, outcome) ==
    LET bboxes == filter_bboxes(collect_bboxes_from_elements(elements), img_size)
        call == [image_id |-> image_id, elements |-> elements,
                 bboxes |-> bboxes, expand_pixels |-> expand_pixels,
                 outcome |-> outcome]
    IN  [clean_background |->
             IF outcome = "image"
             THEN <<"editable_images", image_id, "clean_background.png">>
             ELSE NoPath,
         raised |-> FALSE,
         made |-> <<call>>]

\* No backend call is made and the frame gets no clean background.
no_clean_background == [clean_background |-> NoPath, raised |-> FALSE, made |-> <<>>]

(***************************************************************************)
(* SpecClean: _generate_clean_background applied to elements whose boxes   *)
(* are drawn from a small set, in a frame of a given pixel size.  The      *)
(* boxes start at the origin; widths 564, 570 and 576 are 94%, 95% and 96% *)
(* of a 600-wide frame, 282 and 285 are 94% and 95% of a 300-wide one.     *)
(***************************************************************************)
MaxBoxes == 2

CleanSizes == {<<600, 600>>, <<300, 400>>}
CleanBoxWidths == {282, 285, 564, 570, 576}
CleanBoxHeights == {400, 600}
CleanBoxes == {IntBox(0, 0, w, h) : w \in CleanBoxWidths, h \in CleanBoxHeights}

\* Elements number k of a frame, with box b.
CleanElement(k, b) == EditableElement(ElementId(1, "", k - 1), "image", b, b, NoPath)

CleanInit ==
    /\ GeomIdle
    /\ RecIdle
    /\ TreeIdle
    /\ BatchIdle
    /\ RegistryIdle
    /\ RetryIdle
    /\ k_service \in BOOLEAN
    /\ \E bs \in UNION {[1..n -> CleanBoxes] : n \in 0..MaxBoxes} :
          k_elems = [k \in 1..Len(bs) |-> CleanElement(k, bs[k])]
    /\ k_size \in CleanSizes
    /\ k_out = Pending

\* One call of _generate_clean_background: None at once without a service,
\* else the boxes are collected and filtered and the backend is called.
CallGenerateCleanBackground ==
    /\ k_out.kind = "pending"
    /\ \E outcome \in RepairOutcomes :
          k_out' = Returned(
              IF ~k_service
              THEN no_clean_background
              ELSE generate_clean_background(k_elems, k_size, 1, outcome))
    /\ UNCHANGED <<k_service, k_elems, k_size, regVars, retryVars, geomVars, recVars, treeVars,
                   batchVars>>

CleanNext == CallGenerateCleanBackground

SpecClean == CleanInit /\ [][CleanNext]_vars

\* The boxes of the one backend call a _generate_clean_background call made.
PassedBoxes == {k_out.val.made[1].bboxes[j] :
                    j \in 1..Len(k_out.val.made[1].bboxes)}

\* 100 times the area of the box of element k, an integer.
CleanArea100(k) ==
    100 * (k_elems[k].bbox.x1[1] - k_elems[k].bbox.x0[1])
        * (k_elems[k].bbox.y1[1] - k_elems[k].bbox.y0[1])

\* C13: in _generate_clean_background a box that covers 95% or more of the
\* frame area is not among the boxes passed to the repair call, and a box
\* that covers 94% of the frame area is.
C13_FilterAt95 ==
    (k_out.kind = "returned" /\ k_out.val.made # <<>>) =>
        \A k \in 1..Len(k_elems) :
            /\ CleanArea100(k) >= 95 * k_size[1] * k_size[2]
                   => k_elems[k].bbox \notin PassedBoxes
            /\ CleanArea100(k) = 94 * k_size[1] * k_size[2]
                   => k_elems[k].bbox \in PassedBoxes

(***************************************************************************)
(* The inputs of one top-level call.                                       *)
(***************************************************************************)
MaxDepth == 2       \* max_depth ranges over 0..MaxDepth
MaxElems == 2       \* blocks of a layout, cells of a table
MaxFrames == 3      \* make_image_editable calls of one top-level call

\* The pixel sizes of the top-level image.
RootSizes == {<<600, 600>>, <<520, 520>>}
PageDivisors == {1, 2}

\* Blocks, in the pixels of the image; a layout holds them divided by its
\* page divisor.  on_disk: the sub-image file exists under images/.
BlockKinds ==
    {[type |-> "text", bbox |-> <<50, 50, 300, 100>>, image_path |-> NoPath,
      on_disk |-> FALSE],
     [type |-> "image", bbox |-> <<0, 0, 500, 500>>,
      image_path |-> <<"images", "a.jpg">>, on_disk |-> TRUE],
     [type |-> "table", bbox |-> <<0, 0, 300, 400>>,
      image_path |-> <<"t.jpg">>, on_disk |-> TRUE]}

\* The pixel size of a sub-image file MinerU wrote, by its name.
SubImageSize(path) ==
    IF path[Len(path)] = "a.jpg" THEN <<520, 520>> ELSE <<300, 400>>

CellKinds ==
    {Cell("body", "x", <<0, 0, 200, 100>>),
     Cell("body", "", <<0, 100, 200, 200>>),
     Cell("body", "y", <<0, 0, 50, 50>>),
     Cell("header", "h", <<200, 0, 400, 100>>)}

SeqsUpTo(S, n) == UNION {[1..k -> S] : k \in 0..n}

\* The layout.json MinerU writes for blocks given in image pixels.
LayoutOf(kinds, target_image_size, d) ==
    [kind |-> "ok",
     page_size |-> <<target_image_size[1] \div d, target_image_size[2] \div d>>,
     blocks |-> [k \in 1..Len(kinds) |->
                   Block(kinds[k].type,
                         [j \in 1..Len(kinds[k].bbox) |-> kinds[k].bbox[j] \div d],
                         kinds[k].image_path)]]

FilesOf(kinds) ==
    {block_img_path(kinds[k]) : k \in {j \in 1..Len(kinds) : kinds[j].on_disk}}

Unreadable == [kind |-> "unreadable"]

TreeInit ==
    /\ GeomIdle
    /\ RecIdle
    /\ BatchIdle
    /\ CleanIdle
    /\ RegistryIdle
    /\ RetryIdle
    /\ svc \in [max_depth : 0..MaxDepth, inpainting : BOOLEAN, baidu : BOOLEAN]
    /\ stack = <<>>
    /\ result = Pending
    /\ calls = <<>>
    /\ repairs = <<>>

\* calls[id]: the frame the call started with, how the call stands
\* ("active", "returned", "raised"), the frame it ended with, where an
\* exception left it ("start": its own steps 1-4, "loop": out of
\* _process_children_recursively) and the EditableImage it returned.
CallRecord(frame) ==
    [args |-> frame, status |-> "active", final |-> frame, ended_at |-> "",
     image |-> <<>>]

CallMakeImageEditable ==
    /\ result.kind = "pending"
    /\ stack = <<>>
    /\ calls = <<>>
    /\ \E size \in RootSizes :
         LET f == Frame(1, <<"slide.png">>, 0, NoId, NoBox, NoSize, None, NoPath,
                        NoElement, size)
         IN  /\ stack' = <<f>>
             /\ calls' = <<CallRecord(f)>>
    /\ UNCHANGED <<svc, result, repairs, geomVars, cleanVars, regVars, retryVars, recVars, batchVars>>

(***************************************************************************)
(* Return and exception delivery.                                          *)
(***************************************************************************)
\* The parent frame after the recursive call for its element i returned
\* `image`: the assignments to the element, then the next iteration.
attach_child(parent, image) ==
    [parent EXCEPT
        !.elements[parent.i] =
            [@ EXCEPT !.children = image.elements,
                      !.inpainted_background = image.clean_background,
                      !.child_mineru_result_dir = image.mineru_result_dir],
        !.i = @ + 1]

except_clause_reraise(parent) == [parent EXCEPT !.pc = "raised"]

except_clause_retry(parent) == parent

except_clause_fallback_background(parent) ==
    [parent EXCEPT
        !.elements[parent.i].inpainted_background =
            parent.elements[parent.i].resolved_image_path,
        !.i = @ + 1]

\* The parent frame after the recursive call for its element i raised: the
\* except clause logs the error, the loop goes on with the next element.
except_clause(parent) == [parent EXCEPT !.i = @ + 1]

RECURSIVE unwind(_)
\* An exception reaches the innermost frame of stk from the call it made:
\* the stack it leaves, whether it escaped the top-level call, and the calls
\* it went through without being caught.
unwind(stk) ==
    IF stk = <<>>
    THEN [stack |-> <<>>, escaped |-> TRUE, aborted |-> {}]
    ELSE LET parent == except_clause(Top(stk)) IN
         IF parent.pc = "raised"
         THEN LET u == unwind(Pop(stk))
              IN  [u EXCEPT !.aborted = @ \cup {parent.image_id}]
         ELSE [stack |-> ReplaceTop(stk, parent), escaped |-> FALSE,
               aborted |-> {}]

\* The innermost call, its frame being f, raises out of its own steps.
RaiseFromTop(f, exc) ==
    LET u == unwind(Pop(stack))
    IN  /\ stack' = u.stack
        /\ result' = IF u.escaped THEN Raised(exc) ELSE result
        /\ calls' = [id \in DOMAIN calls |->
                        IF id = f.image_id
                        THEN [calls[id] EXCEPT !.status = "raised",
                                               !.final = f,
                                               !.ended_at = "start"]
                        ELSE IF id \in u.aborted
                        THEN [calls[id] EXCEPT !.status = "raised",
                                               !.ended_at = "loop"]
                        ELSE calls[id]]

\* The innermost call, its frame being f, returns image.
ReturnFromTop(f, image) ==
    /\ calls' = [calls EXCEPT ![f.image_id] =
                    [@ EXCEPT !.status = "returned", !.final = f,
                              !.image = <<image>>]]
    /\ IF Len(stack) = 1
       THEN /\ stack' = <<>>
            /\ result' = Returned(image)
       ELSE /\ stack' = ReplaceTop(Pop(stack), attach_child(Top(Pop(stack)), image))
            /\ UNCHANGED result

(***************************************************************************)
(* Steps 1-4 of make_image_editable, one action per way they can go.       *)
(***************************************************************************)
AtStart == stack # <<>> /\ Top(stack).pc = "start"

use_baidu_any_table(f) == f.element_type = "table"

\* `if element_type == 'table' and self.baidu_table_ocr_provider`
use_baidu(f) == f.element_type = "table" /\ svc.baidu

\* The frame with the way its extraction went noted.
Noted(f, extraction) == [f EXCEPT !.extraction = extraction]

\* Image.open fails on the file.
OpenRaises ==
    /\ AtStart
    /\ RaiseFromTop(Top(stack), "OSError")
    /\ UNCHANGED <<svc, repairs, geomVars, cleanVars, regVars, retryVars, recVars, batchVars>>

\* _convert_image_to_pdf or parser_service.parse_file raises: the try has a
\* finally and no except.
ParseRaises ==
    /\ AtStart
    /\ ~use_baidu(Top(stack))
    /\ RaiseFromTop(Noted(Top(stack), "parse_raises"), "ParseError")
    /\ UNCHANGED <<svc, repairs, geomVars, cleanVars, regVars, retryVars, recVars, batchVars>>

\* parse_file reports an error message or no extract_id.
ParseFails ==
    /\ AtStart
    /\ ~use_baidu(Top(stack))
    /\ LET f == [Top(stack) EXCEPT !.width = Top(stack).file_size[1],
                                   !.height = Top(stack).file_size[2],
                                   !.extraction = "parse_failed"]
       IN  ReturnFromTop(f, EditableImage(f.image_id, f.image_path, f.width,
                                          f.height, <<>>, NoPath, NoPath,
                                          f.depth, f.parent_id, {"error"}))
    /\ UNCHANGED <<svc, repairs, geomVars, cleanVars, regVars, retryVars, recVars, batchVars>>

\* The result directory of the parse does not exist.
ResultDirMissing ==
    /\ AtStart
    /\ ~use_baidu(Top(stack))
    /\ LET f == [Top(stack) EXCEPT !.width = Top(stack).file_size[1],
                                   !.height = Top(stack).file_size[2],
                                   !.extraction = "dir_missing"]
       IN  ReturnFromTop(f, EditableImage(f.image_id, f.image_path, f.width,
                                          f.height, <<>>, NoPath, NoPath,
                                          f.depth, f.parent_id, {}))
    /\ UNCHANGED <<svc, repairs, geomVars, cleanVars, regVars, retryVars, recVars, batchVars>>

recursion_allowed_inclusive(depth, max_depth) == depth <= max_depth

\* Step 5: `if depth < self.max_depth`.
recursion_allowed(depth, max_depth) == depth < max_depth

clean_background_wanted_any_elements(inpainting_service, elements) ==
    inpainting_service

\* `if self.inpainting_service and elements`
clean_background_wanted(inpainting_service, elements) ==
    inpainting_service /\ elements # <<>>

\* Steps 3-5 entry for the elements an extractor gave: the clean background
\* (step 4) and the choice between the loop and the assembly (step 5).
AfterExtraction(f0, elements, mineru_result_dir, files, repair) ==
    LET size == f0.file_size
        root_image_size == IF f0.root_image_size = NoSize
                           THEN size ELSE f0.root_image_size
        root_image_path == IF f0.root_image_path = NoPath
                           THEN f0.image_path ELSE f0.root_image_path
        bg == IF clean_background_wanted(svc.inpainting, elements)
              THEN generate_clean_background(elements, size, f0.image_id, repair)
              ELSE no_clean_background
        f == [f0 EXCEPT !.width = size[1], !.height = size[2],
                        !.root_image_size = root_image_size,
                        !.root_image_path = root_image_path,
                        !.elements = elements,
                        !.clean_background = bg.clean_background,
                        !.mineru_result_dir = mineru_result_dir,
                        !.files = files,
                        !.pc = IF recursion_allowed(f0.depth, svc.max_depth)
                               THEN "loop" ELSE "assemble",
                        !.i = 1]
    IN  /\ repairs' = repairs \o bg.made
        /\ IF bg.raised
           THEN /\ RaiseFromTop(f0, "RepairError")
                /\ UNCHANGED svc
           ELSE /\ stack' = ReplaceTop(stack, f)
                /\ calls' = [calls EXCEPT ![f0.image_id].final = f]
                /\ UNCHANGED <<svc, result>>

\* root_image_size after step 1.
RootSizeOf(f0) ==
    IF f0.root_image_size = NoSize THEN f0.file_size ELSE f0.root_image_size

\* Steps 2-3 with MinerU, for a layout and the files its result directory
\* holds.
ExtractWithMineru(f0, layout, files, repair) ==
    AfterExtraction(
        f0,
        extract_elements_from_mineru(layout, f0.file_size, f0.parent_bbox,
                                     RootSizeOf(f0), f0.image_id),
        <<"mineru_files", f0.image_id>>, files, repair)

ExtractMineru ==
    /\ AtStart
    /\ ~use_baidu(Top(stack))
    /\ \E repair \in RepairOutcomes :
         \/ ExtractWithMineru(Noted(Top(stack), "unreadable"), Unreadable, {},
                              repair)
         \/ \E kinds \in SeqsUpTo(BlockKinds, MaxElems), d \in PageDivisors :
                ExtractWithMineru(Noted(Top(stack), "layout"),
                                  LayoutOf(kinds, Top(stack).file_size, d),
                                  FilesOf(kinds), repair)
    /\ UNCHANGED <<geomVars, cleanVars, regVars, retryVars, recVars, batchVars>>

\* Steps 2-3 with the table OCR.
ExtractWithBaidu(f0, ocr, repair) ==
    AfterExtraction(
        f0,
        extract_elements_from_baidu_ocr(ocr, f0.file_size, f0.parent_bbox,
                                        RootSizeOf(f0), f0.image_id),
        <<"None">>, {}, repair)

ExtractBaidu ==
    /\ AtStart
    /\ use_baidu(Top(stack))
    /\ \E repair \in RepairOutcomes :
         \/ ExtractWithBaidu(Noted(Top(stack), "ocr_raises"),
                             [kind |-> "raises"], repair)
         \/ \E cells \in SeqsUpTo(CellKinds, MaxElems),
               image_size \in {NoSize, <<600, 800>>, <<150, 200>>} :
                ExtractWithBaidu([Noted(Top(stack), "ocr")
                                     EXCEPT !.table_img_size = image_size],
                                 [kind |-> "ok", cells |-> cells,
                                  image_size |-> image_size], repair)
    /\ UNCHANGED <<geomVars, cleanVars, regVars, retryVars, recVars, batchVars>>

(***************************************************************************)
(* Step 5, _process_children_recursively, and step 6.                      *)
(***************************************************************************)
InLoop ==
    /\ stack # <<>>
    /\ Top(stack).pc = "loop"
    /\ Top(stack).i <= Len(Top(stack).elements)

Candidate(f) ==
    should_recurse_into_element(f.elements[f.i], f.files, <<f.width, f.height>>,
                                DEFAULT_MIN_IMAGE_SIZE, DEFAULT_MIN_IMAGE_AREA)

SkipElement ==
    /\ InLoop
    /\ ~Candidate(Top(stack))
    /\ stack' = ReplaceTop(stack, [Top(stack) EXCEPT !.i = @ + 1])
    /\ UNCHANGED <<svc, result, calls, repairs, geomVars, cleanVars, regVars, retryVars, recVars, batchVars>>

child_frame_same_depth(f, element, image_id) ==
    Frame(image_id, f.mineru_result_dir \o element.resolved_image_path,
          f.depth, f.image_id, <<element.bbox_global>>,
          f.root_image_size, element.element_type, f.root_image_path,
          element.element_id, SubImageSize(element.resolved_image_path))

child_frame_current_size(f, element, image_id) ==
    Frame(image_id, f.mineru_result_dir \o element.resolved_image_path,
          f.depth + 1, f.image_id, <<element.bbox_global>>,
          <<f.width, f.height>>, element.element_type, f.root_image_path,
          element.element_id, SubImageSize(element.resolved_image_path))

\* The frame of the call _process_children_recursively makes for element,
\* f being the frame of the parent and image_id the id the call draws.
child_frame(f, element, image_id) ==
    Frame(image_id, f.mineru_result_dir \o element.resolved_image_path,
          f.depth + 1, f.image_id, <<element.bbox_global>>,
          f.root_image_size, element.element_type, f.root_image_path,
          element.element_id, SubImageSize(element.resolved_image_path))

RecurseIntoElement_detached ==
    /\ InLoop
    /\ Candidate(Top(stack))
    /\ Len(calls) < MaxFrames
    /\ LET f == Top(stack)
           element == after_should_recurse(
                          f.elements[f.i], f.files, <<f.width, f.height>>,
                          DEFAULT_MIN_IMAGE_SIZE, DEFAULT_MIN_IMAGE_AREA)
           child == child_frame(f, element, Len(calls) + 1)
       IN  /\ stack' = ReplaceTop(stack, [f EXCEPT !.elements[f.i] = element,
                                                  !.i = @ + 1])
           /\ calls' = Append(calls, CallRecord(child))
    /\ UNCHANGED <<svc, result, repairs, geomVars, cleanVars, regVars, retryVars, recVars, batchVars>>

\* The recursive call for element i of the innermost frame: the frame waits
\* under the frame of the call.  image_id stands for the uuid of the call;
\* it numbers the calls in the order they are made.
RecurseIntoElement ==
    /\ InLoop
    /\ Candidate(Top(stack))
    /\ Len(calls) < MaxFrames
    /\ LET f == Top(stack)
           element == after_should_recurse(
                          f.elements[f.i], f.files, <<f.width, f.height>>,
                          DEFAULT_MIN_IMAGE_SIZE, DEFAULT_MIN_IMAGE_AREA)
           child == child_frame(f, element, Len(calls) + 1)
       IN  /\ stack' = Append(ReplaceTop(stack, [f EXCEPT !.elements[f.i] = element]),
                              child)
           /\ calls' = Append(calls, CallRecord(child))
    /\ UNCHANGED <<svc, result, repairs, geomVars, cleanVars, regVars, retryVars, recVars, batchVars>>

Assemble ==
    /\ stack # <<>>
    /\ \/ Top(stack).pc = "assemble"
       \/ Top(stack).pc = "loop" /\ Top(stack).i > Len(Top(stack).elements)
    /\ LET f == Top(stack)
       IN  ReturnFromTop(f, EditableImage(f.image_id, f.image_path, f.width,
                                          f.height, f.elements,
                                          f.clean_background,
                                          f.mineru_result_dir, f.depth,
                                          f.parent_id, {}))
    /\ UNCHANGED <<svc, repairs, geomVars, cleanVars, regVars, retryVars, recVars, batchVars>>

Next ==
    \/ CallMakeImageEditable
    \/ OpenRaises
    \/ ParseRaises
    \/ ParseFails
    \/ ResultDirMissing
    \/ ExtractMineru
    \/ ExtractBaidu
    \/ SkipElement
    \/ RecurseIntoElement
    \/ Assemble

Spec == TreeInit /\ [][Next]_vars

(***************************************************************************)
(* Properties of Spec.                                                     *)
(***************************************************************************)
CallIds == DOMAIN calls

\* The frame of call id as it stands: on the stack, or as the call left it.
CurrentFrame(id) ==
    IF \E k \in 1..Len(stack) : stack[k].image_id = id
    THEN stack[CHOOSE k \in 1..Len(stack) : stack[k].image_id = id]
    ELSE calls[id].final

\* The calls made for element e.
CallsFor(e) == {id \in CallIds : calls[id].args.owner = e}

\* The element of call id's frame that call c analyses the sub-image of.
OwnerElement(c) ==
    LET pf == CurrentFrame(calls[c].args.parent_id)
    IN  pf.elements[CHOOSE k \in 1..Len(pf.elements) :
                        pf.elements[k].element_id = calls[c].args.owner]

\* C1: every EditableImage created in a tree started at depth 0, root or
\* descendant, has depth <= max_depth.
C1_DepthBounded ==
    \A id \in CallIds :
        /\ calls[id].args.depth <= svc.max_depth
        /\ calls[id].image # <<>> => calls[id].image[1].depth <= svc.max_depth

C1_Witness ==
    /\ svc.max_depth = 2
    /\ \E id \in CallIds :
          /\ calls[id].image # <<>>
          /\ calls[id].image[1].depth = 2
          /\ calls[id].image[1].elements # <<>>

\* C2: within one top-level analysis make_image_editable is called at most
\* once for an element's sub-image, and an element that has children is not
\* a recursion candidate.
C2_RecurseOnce ==
    /\ \A id \in CallIds :
          calls[id].args.owner # NoElement
              => Cardinality(CallsFor(calls[id].args.owner)) = 1
    /\ \A k \in 1..Len(stack) : \A j \in 1..Len(stack[k].elements) :
          stack[k].elements[j].children # <<>>
              => ~should_recurse_into_element(
                     stack[k].elements[j], stack[k].files,
                     <<stack[k].width, stack[k].height>>,
                     DEFAULT_MIN_IMAGE_SIZE, DEFAULT_MIN_IMAGE_AREA)

C2_Witness ==
    /\ result.kind = "returned"
    /\ \E j \in 1..Len(result.val.elements) :
          /\ result.val.elements[j].children # <<>>
          /\ Cardinality(CallsFor(result.val.elements[j].element_id)) = 1
    /\ \E id \in CallIds : calls[id].status = "raised"

\* C5: when the extraction fails or yields nothing usable (the parser
\* reports an error or no extract id, the parser call raises, the result
\* directory is missing, the layout files cannot be read),
\* make_image_editable does not raise and returns an EditableImage with no
\* elements and an 'error' entry in its metadata.
C5_ExtractionFailureAnnotated ==
    \A id \in CallIds :
        (/\ calls[id].status # "active"
         /\ calls[id].final.extraction \in
               {"parse_failed", "parse_raises", "dir_missing", "unreadable"})
        => /\ calls[id].status = "returned"
           /\ calls[id].image[1].elements = <<>>
           /\ "error" \in calls[id].image[1].metadata

\* The element as _process_children_recursively met it: before any
\* recursion into it.
AsExtracted(e) ==
    [e EXCEPT !.children = <<>>, !.inpainted_background = NoPath,
              !.resolved_image_path = NoPath, !.child_mineru_result_dir = NoPath]

\* C6: when the recursive analysis of an element raises, the parent frame
\* goes on: no call is ended by an exception of a call it made, the failing
\* element keeps no children, and in a frame that returned every element
\* that qualified was recursed into.
C6_SiblingsSurviveFailure ==
    /\ \A id \in CallIds :
          calls[id].status = "raised" => calls[id].ended_at = "start"
    /\ \A id \in CallIds :
          (calls[id].status = "raised" /\ calls[id].args.owner # NoElement)
              => /\ OwnerElement(id).children = <<>>
                 /\ OwnerElement(id).inpainted_background = NoPath
    /\ \A id \in CallIds :
          (calls[id].status = "returned" /\ calls[id].final.pc = "loop")
              => \A j \in 1..Len(calls[id].final.elements) :
                    LET f == calls[id].final
                        e == f.elements[j]
                    IN  should_recurse_into_element(
                            AsExtracted(e), f.files, <<f.width, f.height>>,
                            DEFAULT_MIN_IMAGE_SIZE, DEFAULT_MIN_IMAGE_AREA)
                        => CallsFor(e.element_id) # {}

C6_Witness ==
    /\ result.kind = "returned"
    /\ \E a \in CallIds, b \in CallIds :
          /\ calls[a].args.parent_id = 1
          /\ calls[b].args.parent_id = 1
          /\ calls[a].status = "raised"
          /\ calls[b].status = "returned"
          /\ calls[a].args.owner.idx < calls[b].args.owner.idx
          /\ result.val.elements[2].children # <<>>
          /\ result.val.elements[1].children = <<>>

\* The boxes b of a sequence of boxes.
BoxesOf(bboxes) == {bboxes[j] : j \in 1..Len(bboxes)}

RECURSIVE DescendantBoxes(_)
\* The local boxes of the children of elements, and of their children.
DescendantBoxes(elements) ==
    UNION {BoxesOf([j \in 1..Len(elements[k].children) |->
                        elements[k].children[j].bbox])
           \cup DescendantBoxes(elements[k].children) : k \in 1..Len(elements)}

\* The box covers more than 95% of a frame of this size.
OverCoverage(b, size) ==
    RLt(Flt(95 * size[1] * size[2]), RMul(Flt(100), area(b)))

RECURSIVE Ancestors(_)
\* The calls call id is nested in.
Ancestors(id) ==
    IF calls[id].args.parent_id = NoId THEN {}
    ELSE {calls[id].args.parent_id} \cup Ancestors(calls[id].args.parent_id)

Ended(id) == calls[id].status # "active"

\* The repair calls made for the frame of call id.
RepairsOf(id) == {j \in 1..Len(repairs) : repairs[j].image_id = id}

\* Every element of frame F has the global box that maps its local box
\* with local image size s (its local box itself in a root frame).
GlobalBoxesMappedWith(F, s) ==
    \A k \in 1..Len(F.elements) :
        IF F.parent_bbox = NoBox
        THEN F.elements[k].bbox_global = F.elements[k].bbox
        ELSE local_to_global(F.elements[k].bbox, F.parent_bbox[1], s,
                             F.root_image_size)
                = Returned(F.elements[k].bbox_global)

C20_ChildCallArguments ==
    /\ \A c \in CallIds :
          calls[c].args.owner # NoElement =>
              LET P == CurrentFrame(calls[c].args.parent_id)
                  e == OwnerElement(c)
              IN  /\ calls[c].args.depth = P.depth + 1
                  /\ calls[c].args.parent_id = P.image_id
                  /\ calls[c].args.parent_bbox = <<e.bbox_global>>
                  /\ calls[c].args.element_type = e.element_type
                  /\ calls[c].args.root_image_size = P.root_image_size
                  /\ calls[c].args.root_image_path = P.root_image_path
    /\ \A id \in CallIds :
          LET F == CurrentFrame(id)
          IN  (id # 1 \/ F.pc # "start") =>
                  /\ F.root_image_size = calls[1].args.file_size
                  /\ F.root_image_path = calls[1].args.image_path

C20_Witness ==
    /\ result.kind = "returned"
    /\ Len(calls) = 3
    /\ calls[2].args.parent_id = 1
    /\ calls[3].args.parent_id = 2
    /\ calls[3].args.depth = 2
    /\ calls[2].args.file_size # calls[1].args.file_size
    /\ calls[3].final.root_image_size = calls[1].args.file_size
    /\ calls[3].args.parent_bbox # <<OwnerElement(3).bbox>>
    /\ calls[3].status = "returned"

\* C18: recursion inside one top-level image is sequential and depth-first:
\* a call made after call a, unless nested in a, starts only when a (and so
\* every call nested in a, with its extraction and repair) has ended; a call
\* has not ended while a call nested in it is active, so a parent is
\* assembled after its children; the active calls are one chain of nested
\* calls.
C18_DepthFirstSequential ==
    /\ \A a \in CallIds, b \in CallIds :
          a < b => (a \in Ancestors(b) \/ Ended(a))
    /\ \A p \in CallIds, c \in CallIds :
          (Ended(p) /\ p \in Ancestors(c)) => Ended(c)
    /\ {id \in CallIds : ~Ended(id)} = {stack[k].image_id : k \in 1..Len(stack)}
    /\ \A k \in 2..Len(stack) : stack[k].parent_id = stack[k - 1].image_id
    /\ \A j \in 1..Len(repairs) : \A b \in CallIds :
          (repairs[j].image_id < b /\ ~Ended(repairs[j].image_id))
              => repairs[j].image_id \in Ancestors(b)

C18_Witness ==
    /\ result.kind = "returned"
    /\ Len(calls) = 3
    /\ calls[2].args.parent_id = 1
    /\ calls[3].args.parent_id = 1
    /\ calls[2].status = "returned"
    /\ calls[3].status = "returned"
    /\ RepairsOf(2) # {} /\ RepairsOf(3) # {}

\* In the frame F, which returned, every element that qualified was
\* recursed into.
RecursedAsQualified(F) ==
    \A k \in 1..Len(F.elements) :
        (/\ F.depth < svc.max_depth
         /\ should_recurse_into_element(
                AsExtracted(F.elements[k]), F.files, <<F.width, F.height>>,
                DEFAULT_MIN_IMAGE_SIZE, DEFAULT_MIN_IMAGE_AREA))
        <=> CallsFor(F.elements[k].element_id) # {}

\* C15: when the repair backend returns no image or raises, the
\* make_image_editable call of the frame does not fail; it returns an
\* EditableImage without clean_background, and with the elements and the
\* recursion into them that a successful repair leaves: whatever the
\* backend did, the frame keeps the elements given to the repair and
\* recurses into those that qualify.
C15_RepairFailureTolerated ==
    \A j \in 1..Len(repairs) :
        LET id == repairs[j].image_id
            F == CurrentFrame(id)
        IN  /\ calls[id].status # "raised"
            /\ (F.clean_background = NoPath) <=> (repairs[j].outcome # "image")
            /\ [k \in 1..Len(F.elements) |-> AsExtracted(F.elements[k])]
                  = repairs[j].elements
            /\ F.pc = IF F.depth < svc.max_depth THEN "loop" ELSE "assemble"
            /\ calls[id].status = "returned" =>
                  /\ calls[id].image[1].clean_background = F.clean_background
                  /\ calls[id].image[1].elements = F.elements
                  /\ RecursedAsQualified(F)

C15_Witness ==
    /\ result.kind = "returned"
    /\ result.val.clean_background = NoPath
    /\ \E j \in RepairsOf(1) : repairs[j].outcome = "raises"
    /\ \E k \in 1..Len(result.val.elements) :
          /\ result.val.elements[k].children # <<>>
          /\ \E c \in CallsFor(result.val.elements[k].element_id) :
                \E j \in RepairsOf(c) : repairs[j].outcome = "none"

\* C16: for a frame the repair backend is invoked exactly when a repair
\* backend is configured and the frame's element list is non-empty; with
\* no backend or no elements no repair call is made and clean_background
\* stays unset.
C16_RepairExactlyWhen ==
    \A id \in CallIds :
        LET F == CurrentFrame(id)
        IN  /\ Cardinality(RepairsOf(id))
                  = IF svc.inpainting /\ Len(F.elements) > 0 THEN 1 ELSE 0
            /\ RepairsOf(id) = {} =>
                  /\ F.clean_background = NoPath
                  /\ calls[id].image # <<>> =>
                        calls[id].image[1].clean_background = NoPath

C16_Witness ==
    /\ svc.inpainting
    /\ result.kind = "returned"
    /\ Cardinality(RepairsOf(1)) = 1
    /\ \E c \in CallIds :
          /\ calls[c].status = "returned"
          /\ calls[c].final.extraction = "layout"
          /\ calls[c].final.elements = <<>>
          /\ RepairsOf(c) = {}

(***************************************************************************)
(* SpecBatch: make_multi_images_editable.  The analysis of one image is    *)
(* one step here: it returns the EditableImage of the image ("image"),     *)
(* returns one annotated with an error ("error_image", as ParseFails       *)
(* does), or raises ("raises", as OpenRaises and ParseRaises do at depth   *)
(* 0).  A future is "queued", "running", or done with one of these.        *)
(***************************************************************************)
MaxImages == 3
MaxWorkers == 2

ImagePaths == {"a.png", "b.png"}
AnalysisOutcomes == {"image", "error_image", "raises"}

\* What make_image_editable(img_path) returns when it returns.
analysis_image(img_path, outcome) ==
    EditableImage("uuid", img_path, 600, 600, <<>>, NoPath, NoPath, 0, NoId,
                  IF outcome = "error_image" THEN {"error"} ELSE {})

\* The EditableImage the parallel path puts in the slot of a failed image.
error_image(idx, img_path) ==
    EditableImage("error", img_path, 0, 0, <<>>, NoPath, NoPath, 0, NoId,
                  {"error"})

\* A slot of the results list that was not assigned yet.
EmptySlot == [image_id |-> "None"]

\* `if not parallel or len(image_paths) == 1`
runs_serially(parallel, image_paths) == ~parallel \/ Len(image_paths) = 1

store_result_in_completion_order(results, idx, image) ==
    LET free == {k \in 1..Len(results) : results[k] = EmptySlot}
    IN  [results EXCEPT ![CHOOSE k \in free : \A j \in free : k <= j] = image]

\* results[idx] = ...
store_result(results, idx, image) == [results EXCEPT ![idx] = image]

BatchInit ==
    /\ GeomIdle
    /\ RecIdle
    /\ TreeIdle
    /\ CleanIdle
    /\ RegistryIdle
    /\ RetryIdle
    /\ b_in \in [image_paths : SeqsUpTo(ImagePaths, MaxImages),
                 parallel : BOOLEAN,
                 max_workers : 1..MaxWorkers]
    /\ b_pc = "idle"
    /\ b_futures = <<>>
    /\ b_frames = <<>>
    /\ b_order = <<>>
    /\ b_results = <<>>
    /\ b_out = Pending

\* The call starts: the serial loop, or the results list and one submitted
\* future per image.
CallMakeMultiImagesEditable ==
    /\ b_pc = "idle"
    /\ IF runs_serially(b_in.parallel, b_in.image_paths)
       THEN /\ b_pc' = "serial"
            /\ UNCHANGED <<b_futures, b_frames, b_results>>
       ELSE /\ b_pc' = "parallel"
            /\ b_results' = [k \in 1..Len(b_in.image_paths) |-> EmptySlot]
            /\ b_futures' = [k \in 1..Len(b_in.image_paths) |-> "queued"]
            /\ b_frames' = [k \in 1..Len(b_in.image_paths) |-> <<>>]
    /\ UNCHANGED <<b_in, b_order, b_out, geomVars, cleanVars, regVars, retryVars, recVars, treeVars>>

\* One iteration of the serial loop: the analysis is not guarded.
SerialStep ==
    /\ b_pc = "serial"
    /\ Len(b_results) < Len(b_in.image_paths)
    /\ \E outcome \in AnalysisOutcomes :
         LET img_path == b_in.image_paths[Len(b_results) + 1]
         IN  IF outcome = "raises"
             THEN /\ b_pc' = "raised"
                  /\ b_out' = Raised("analysis")
                  /\ UNCHANGED b_results
             ELSE /\ b_results' = Append(b_results,
                                         analysis_image(img_path, outcome))
                  /\ UNCHANGED <<b_pc, b_out>>
    /\ UNCHANGED <<b_in, b_futures, b_frames, b_order, geomVars, cleanVars, regVars, retryVars, recVars, treeVars>>

SerialReturn ==
    /\ b_pc = "serial"
    /\ Len(b_results) = Len(b_in.image_paths)
    /\ b_pc' = "returned"
    /\ b_out' = Returned(b_results)
    /\ UNCHANGED <<b_in, b_futures, b_frames, b_order, b_results, geomVars, cleanVars, regVars, retryVars, recVars,
                   treeVars>>

Running == {k \in 1..Len(b_futures) : b_futures[k] = "running"}

executor_capacity_default(max_workers) == 32

\* ThreadPoolExecutor(max_workers=max_workers): the number of worker threads.
executor_capacity(max_workers) == max_workers

call_child_detached(frames) == Append(frames, "executing")

\* The innermost frame calls make_image_editable for an element: it waits
\* for the call, the new frame executes.
call_child(frames) ==
    Append([frames EXCEPT ![Len(frames)] = "waiting"], "executing")

\* The innermost call ends (returns, or raises into the caller's except
\* clause): its caller goes on.
child_ends(frames) ==
    [SubSeq(frames, 1, Len(frames) - 1) EXCEPT ![Len(frames) - 1] = "executing"]

\* A worker thread that is free takes the oldest queued work item.
WorkerStart ==
    /\ b_pc = "parallel"
    /\ Cardinality(Running) < executor_capacity(b_in.max_workers)
    /\ \E k \in 1..Len(b_futures) :
          /\ b_futures[k] = "queued"
          /\ \A j \in 1..(k - 1) : b_futures[j] # "queued"
          /\ b_futures' = [b_futures EXCEPT ![k] = "running"]
          /\ b_frames' = [b_frames EXCEPT ![k] = <<"executing">>]
    /\ UNCHANGED <<b_in, b_pc, b_order, b_results, b_out, geomVars, cleanVars, regVars, retryVars, recVars,
                   treeVars>>

\* In a worker's analysis the innermost frame recurses into an element
\* (its depth, the number of frames under it, is below max_depth).
WorkerRecurse ==
    /\ b_pc = "parallel"
    /\ \E k \in Running :
          /\ Len(b_frames[k]) - 1 < MaxDepth
          /\ b_frames' = [b_frames EXCEPT ![k] = call_child(@)]
    /\ UNCHANGED <<b_in, b_pc, b_futures, b_order, b_results, b_out, geomVars,
                   cleanVars, regVars, retryVars, recVars, treeVars>>

\* In a worker's analysis a recursive call ends.
WorkerChildEnds ==
    /\ b_pc = "parallel"
    /\ \E k \in Running :
          /\ Len(b_frames[k]) > 1
          /\ b_frames' = [b_frames EXCEPT ![k] = child_ends(@)]
    /\ UNCHANGED <<b_in, b_pc, b_futures, b_order, b_results, b_out, geomVars,
                   cleanVars, regVars, retryVars, recVars, treeVars>>

\* A worker's make_image_editable call ends.
WorkerFinish ==
    /\ b_pc = "parallel"
    /\ \E k \in Running, outcome \in AnalysisOutcomes :
          /\ Len(b_frames[k]) = 1
          /\ b_futures' = [b_futures EXCEPT ![k] = outcome]
          /\ b_frames' = [b_frames EXCEPT ![k] = <<>>]
    /\ UNCHANGED <<b_in, b_pc, b_order, b_results, b_out, geomVars, cleanVars, regVars, retryVars, recVars,
                   treeVars>>

Yielded == {b_order[k] : k \in 1..Len(b_order)}

\* as_completed yields a finished future; the loop body stores its result or
\* the error image.
Collect ==
    /\ b_pc = "parallel"
    /\ \E idx \in 1..Len(b_futures) :
          /\ idx \notin Yielded
          /\ b_futures[idx] \in AnalysisOutcomes
          /\ b_order' = Append(b_order, idx)
          /\ b_results' =
                store_result(
                    b_results, idx,
                    IF b_futures[idx] = "raises"
                    THEN error_image(idx, b_in.image_paths[idx])
                    ELSE analysis_image(b_in.image_paths[idx], b_futures[idx]))
    /\ UNCHANGED <<b_in, b_pc, b_futures, b_frames, b_out, geomVars, cleanVars, regVars, retryVars, recVars, treeVars>>

ParallelReturn ==
    /\ b_pc = "parallel"
    /\ Len(b_order) = Len(b_in.image_paths)
    /\ b_pc' = "returned"
    /\ b_out' = Returned(b_results)
    /\ UNCHANGED <<b_in, b_futures, b_frames, b_order, b_results, geomVars, cleanVars, regVars, retryVars, recVars,
                   treeVars>>

BatchNext ==
    \/ CallMakeMultiImagesEditable
    \/ SerialStep
    \/ SerialReturn
    \/ WorkerStart
    \/ WorkerRecurse
    \/ WorkerChildEnds
    \/ WorkerFinish
    \/ Collect
    \/ ParallelReturn

SpecBatch == BatchInit /\ [][BatchNext]_vars

\* C3: make_multi_images_editable returns one result per input path, and
\* result[i] is the analysis of image_paths[i], whatever the order in which
\* the workers complete.
C3_OrderPreserved ==
    b_out.kind = "returned" =>
        /\ Len(b_out.val) = Len(b_in.image_paths)
        /\ \A k \in 1..Len(b_out.val) :
              /\ b_out.val[k] # EmptySlot
              /\ b_out.val[k].image_path = b_in.image_paths[k]

C3_Witness ==
    /\ b_out.kind = "returned"
    /\ b_in.image_paths = <<"a.png", "b.png", "a.png">>
    /\ b_order = <<2, 3, 1>>
    /\ b_out.val[1].image_path = "a.png"
    /\ b_out.val[2].image_path = "b.png"

\* C4: when the analysis of one image raises, make_multi_images_editable
\* still returns: that image's slot holds an EditableImage with an 'error'
\* entry, width 0 and height 0, every other slot the result of its own
\* image; for parallel true or false, any number of images and any
\* max_workers.
C4_FailureIsolated ==
    /\ b_out.kind # "raised"
    /\ (b_out.kind = "returned" /\ b_pc = "returned" /\ b_futures # <<>>) =>
          \A k \in 1..Len(b_out.val) :
              IF b_futures[k] = "raises"
              THEN /\ "error" \in b_out.val[k].metadata
                   /\ b_out.val[k].width = 0
                   /\ b_out.val[k].height = 0
              ELSE /\ b_out.val[k].image_path = b_in.image_paths[k]
                   /\ b_out.val[k].width > 0

\* The frames of worker k's analysis that are executing, not waiting for a
\* call they made.
Executing(k) == {j \in 1..Len(b_frames[k]) : b_frames[k][j] = "executing"}

\* C17: during make_multi_images_editable at most max_workers
\* make_image_editable calls of top-level images run at the same time, and
\* within the analysis of one top-level image no two frames are analysed
\* concurrently.
C17_BoundedParallelism ==
    /\ Cardinality(Running) <= b_in.max_workers
    /\ \A k \in 1..Len(b_frames) : Cardinality(Executing(k)) <= 1

C17_Witness ==
    /\ b_in.max_workers = 2
    /\ Len(b_in.image_paths) = 3
    /\ Cardinality(Running) = 2
    /\ \E k \in 1..3 : b_futures[k] = "queued"
    /\ \A k \in Running : Len(b_frames[k]) >= 2 /\ Cardinality(Executing(k)) = 1

(***************************************************************************)
(* Properties of Spec: the elements of the tree.  Every element of a tree  *)
(* is an element of the frame of one of its calls (the children of an      *)
(* element are the elements of the frame of the call made for it).         *)
(***************************************************************************)
\* The places (call, index) of the elements of the tree.
ElementPlaces ==
    {p \in CallIds \X (1..MaxElems) : p[2] <= Len(CurrentFrame(p[1]).elements)}

ElementAt(p) == CurrentFrame(p[1]).elements[p[2]]

\* C21: every element with a non-empty children list has a non-empty
\* image_path and a metadata 'resolved_image_path' that was an existing file
\* of its frame's result directory when the recursion into it started; the
\* recursive call was made on that file.
C21_ChildrenHaveResolvedImage ==
    \A p \in ElementPlaces :
        LET e == ElementAt(p)
            F == CurrentFrame(p[1])
        IN  e.children # <<>> =>
                /\ e.image_path # NoPath
                /\ e.resolved_image_path # NoPath
                /\ e.resolved_image_path \in F.files
                /\ \A c \in CallsFor(e.element_id) :
                       calls[c].args.image_path
                           = F.mineru_result_dir \o e.resolved_image_path

C21_Witness ==
    /\ result.kind = "returned"
    /\ \E k \in 1..Len(result.val.elements) :
          /\ result.val.elements[k].children # <<>>
          /\ result.val.elements[k].image_path = <<"images", "t.jpg">>
          /\ result.val.elements[k].resolved_image_path = <<"images", "t.jpg">>
          /\ CallsFor(result.val.elements[k].element_id) # {}

\* C22: an element's inpainted_background is set only if the recursion into
\* the element occurred and returned, and it is then the clean background of
\* the returned image; an element that was not recursed into, or whose
\* recursive analysis raised, has inpainted_background unset and no children.
C22_BackgroundOnlyFromRecursion ==
    \A p \in ElementPlaces :
        LET e == ElementAt(p)
            returned == {c \in CallsFor(e.element_id) :
                            calls[c].status = "returned"}
        IN  IF returned = {}
            THEN e.inpainted_background = NoPath /\ e.children = <<>>
            ELSE \A c \in returned :
                    /\ e.inpainted_background = calls[c].image[1].clean_background
                    /\ e.children = calls[c].image[1].elements

C22_Witness ==
    /\ result.kind = "returned"
    /\ Len(result.val.elements) = 2
    /\ result.val.elements[1].inpainted_background # NoPath
    /\ result.val.elements[2].inpainted_background = NoPath
    /\ \E c \in CallsFor(result.val.elements[2].element_id) :
          calls[c].status = "raised"

\* C23: element ids are unique within the whole tree: no two elements, at
\* any depths and in any frames, have the same element_id.
C23_ElementIdsUnique ==
    \A p \in ElementPlaces, q \in ElementPlaces :
        p # q => ElementAt(p).element_id # ElementAt(q).element_id

C23_Witness ==
    /\ result.kind = "returned"
    /\ Len(calls) = 3
    /\ \E p \in ElementPlaces, q \in ElementPlaces, r \in ElementPlaces :
          /\ p[1] = 1 /\ q[1] = 2 /\ r[1] = 3
          /\ ElementAt(p).element_id.idx = ElementAt(q).element_id.idx
          /\ ElementAt(r).element_id.kind = "cell"

\* C24: with max_depth = 1 only the top-level image is processed and no
\* element is recursed into, with max_depth = 2 the recursion goes one level
\* deep, and so on: max_depth = n gives at most n - 1 levels of recursion.
C24_LevelsBelowMaxDepth ==
    \A id \in CallIds :
        svc.max_depth >= 1 => calls[id].args.depth <= svc.max_depth - 1

\* ---------------------------------------------------------------------------
\* SpecRegistry: the provider registry built by
\* InpaintProviderFactory.create_inpaint_registry and resolved by element type.
\* ---------------------------------------------------------------------------

\* The element types create_inpaint_registry registers, and one it does not.
MaskTypes == {"text", "title", "paragraph", "table", "table_cell"}

GenerativeTypes == {"image", "figure", "chart", "diagram"}

TypeTags == MaskTypes \cup GenerativeTypes \cup {"formula"}

\* How many register calls a hand-built registry receives.
MaxRegistrations == 2

\* Provider objects: handed in by the caller or created by the factory.
GivenProviders == {"mask_given", "generative_given"}

DefaultProviderTypes == {"mask", "generative", "auto"}

\* InpaintProviderRegistry(): no default, no type entries.
EmptyRegistry == [default |-> None, types |-> <<>>]

\* register_default(strategy).
register_default(registry, strategy) == [registry EXCEPT !.default = strategy]

\* register_types(type_tags, strategy): later registrations overwrite.
register_types(registry, type_tags, strategy) ==
    [registry EXCEPT !.types =
        [t \in DOMAIN registry.types \cup type_tags |->
            IF t \in type_tags THEN strategy ELSE registry.types[t]]]

\* resolve(type_tag): the type's strategy, else the default, else a failure.
resolve(registry, type_tag) ==
    IF type_tag \in DOMAIN registry.types THEN Returned(registry.types[type_tag])
    ELSE IF registry.default # None THEN Returned(registry.default)
    ELSE Raised("NoStrategyConfigured")

\* create_default_provider / create_generative_edit_provider: a new provider,
\* or the exception of the service behind it.
create_default_provider(available) ==
    IF available THEN Returned("mask_created") ELSE Raised("ServiceUnavailable")

create_generative_edit_provider(available) ==
    IF available THEN Returned("generative_created") ELSE Raised("ServiceUnavailable")

\* Variant: the default is the mask provider whenever there is one.
create_inpaint_registry_mask_first(mask_provider, generative_provider, default_provider_type, available) ==
    LET m == IF mask_provider = None THEN create_default_provider(available.mask)
             ELSE Returned(mask_provider)
        g == IF generative_provider = None
             THEN create_generative_edit_provider(available.generative)
             ELSE Returned(generative_provider)
    IN  IF m.kind = "raised" THEN m
        ELSE IF g.kind = "raised" THEN g
        ELSE LET r0 == register_default(EmptyRegistry, m.val)
                 r1 == register_types(r0, {"text", "title", "paragraph"}, m.val)
                 r2 == register_types(r1, {"table", "table_cell"}, m.val)
                 r3 == register_types(r2, {"image", "figure", "chart", "diagram"}, g.val)
             IN  Returned(r3)

\* create_inpaint_registry: a provider that was not handed in is created, the
\* default is chosen by default_provider_type, then the types are registered.
create_inpaint_registry(mask_provider, generative_provider, default_provider_type, available) ==
    LET m == IF mask_provider = None THEN create_default_provider(available.mask)
             ELSE Returned(mask_provider)
        g == IF generative_provider = None
             THEN create_generative_edit_provider(available.generative)
             ELSE Returned(generative_provider)
    IN  IF m.kind = "raised" THEN m
        ELSE IF g.kind = "raised" THEN g
        ELSE LET r0 == IF default_provider_type = "generative" /\ g.val # None
                       THEN register_default(EmptyRegistry, g.val)
                       ELSE IF m.val # None THEN register_default(EmptyRegistry, m.val)
                       ELSE IF g.val # None THEN register_default(EmptyRegistry, g.val)
                       ELSE EmptyRegistry
                 r1 == IF m.val # None
                       THEN register_types(r0, {"text", "title", "paragraph"}, m.val)
                       ELSE r0
                 r2 == IF m.val # None
                       THEN register_types(r1, {"table", "table_cell"}, m.val)
                       ELSE r1
                 r3 == IF g.val # None
                       THEN register_types(r2, {"image", "figure", "chart", "diagram"}, g.val)
                       ELSE r2
             IN  Returned(r3)

RegistryInit ==
    /\ GeomIdle
    /\ RecIdle
    /\ TreeIdle
    /\ BatchIdle
    /\ CleanIdle
    /\ RetryIdle
    /\ p_made = None /\ p_reg = None /\ p_pc = "new" /\ p_tag = None /\ p_out = Pending

\* A caller builds the registry through the factory.
CallCreateInpaintRegistry ==
    /\ p_pc = "new"
    /\ \E mask_provider \in {None, "mask_given"},
          generative_provider \in {None, "generative_given"},
          default_provider_type \in DefaultProviderTypes,
          available \in [mask : BOOLEAN, generative : BOOLEAN] :
          LET made == create_inpaint_registry(mask_provider, generative_provider,
                                              default_provider_type, available)
          IN  /\ p_made' = [by |-> "factory", mask_provider |-> mask_provider,
                            generative_provider |-> generative_provider,
                            default_provider_type |-> default_provider_type,
                            available |-> available, registrations |-> 0]
              /\ IF made.kind = "raised"
                 THEN p_reg' = None /\ p_pc' = "failed"
                 ELSE p_reg' = made.val /\ p_pc' = "ready"
    /\ UNCHANGED <<p_tag, p_out, geomVars, recVars, treeVars, batchVars, cleanVars, retryVars>>

\* A caller builds a registry by hand, starting from an empty one.
NewRegistry ==
    /\ p_pc = "new"
    /\ p_made' = [by |-> "hand", registrations |-> 0]
    /\ p_reg' = EmptyRegistry
    /\ p_pc' = "ready"
    /\ UNCHANGED <<p_tag, p_out, geomVars, recVars, treeVars, batchVars, cleanVars, retryVars>>

RegisterDefault ==
    /\ p_pc = "ready" /\ p_made.by = "hand"
    /\ p_made.registrations < MaxRegistrations
    /\ \E strategy \in GivenProviders : p_reg' = register_default(p_reg, strategy)
    /\ p_made' = [p_made EXCEPT !.registrations = @ + 1]
    /\ UNCHANGED <<p_pc, p_tag, p_out, geomVars, recVars, treeVars, batchVars, cleanVars, retryVars>>

RegisterTypes ==
    /\ p_pc = "ready" /\ p_made.by = "hand"
    /\ p_made.registrations < MaxRegistrations
    /\ \E type_tags \in {{"text", "table"}, {"table", "image"}, {"image"}},
          strategy \in GivenProviders :
          p_reg' = register_types(p_reg, type_tags, strategy)
    /\ p_made' = [p_made EXCEPT !.registrations = @ + 1]
    /\ UNCHANGED <<p_pc, p_tag, p_out, geomVars, recVars, treeVars, batchVars, cleanVars, retryVars>>

\* The registry is asked for the provider of an element type.
Resolve ==
    /\ p_pc = "ready"
    /\ \E type_tag \in TypeTags :
          /\ p_tag' = type_tag
          /\ p_out' = resolve(p_reg, type_tag)
    /\ p_pc' = "resolved"
    /\ UNCHANGED <<p_made, p_reg, geomVars, recVars, treeVars, batchVars, cleanVars, retryVars>>

RegistryNext ==
    \/ CallCreateInpaintRegistry
    \/ NewRegistry
    \/ RegisterDefault
    \/ RegisterTypes
    \/ Resolve

SpecRegistry == RegistryInit /\ [][RegistryNext]_vars

\* The providers a factory-built registry holds.
MaskProviderOf(made) ==
    IF made.mask_provider = None THEN "mask_created" ELSE made.mask_provider

GenerativeProviderOf(made) ==
    IF made.generative_provider = None THEN "generative_created"
    ELSE made.generative_provider

\* C25: a registry built by create_inpaint_registry resolves text, title,
\* paragraph, table and table_cell to the mask provider, image, figure, chart
\* and diagram to the generative provider and any other type to the default,
\* which is the generative provider when default_provider_type is
\* "generative" and the mask provider otherwise; a registry with no entry for
\* the type and no default fails on resolve.
C25_RegistryResolution ==
    p_pc = "resolved" =>
        /\ p_made.by = "factory" =>
              /\ p_tag \in MaskTypes => p_out = Returned(MaskProviderOf(p_made))
              /\ p_tag \in GenerativeTypes => p_out = Returned(GenerativeProviderOf(p_made))
              /\ p_tag \notin MaskTypes \cup GenerativeTypes =>
                    p_out = Returned(IF p_made.default_provider_type = "generative"
                                     THEN GenerativeProviderOf(p_made)
                                     ELSE MaskProviderOf(p_made))
        /\ (p_tag \notin DOMAIN p_reg.types /\ p_reg.default = None) =>
              p_out.kind = "raised"

\* C25 witness: a factory-built registry with default_provider_type
\* "generative" resolved an unregistered type to the generative provider.
C25_Witness ==
    /\ p_pc = "resolved" /\ p_made.by = "factory"
    /\ p_made.default_provider_type = "generative"
    /\ p_made.mask_provider = "mask_given"
    /\ p_tag = "formula"
    /\ p_out = Returned("generative_created")

\* The calls made by the frame of call id, for its own elements.
ChildCalls(id) == {c \in CallIds : calls[c].args.parent_id = id}

\* C26: the recursion of a make_image_editable call is bounded: the nested
\* frames on one path are at most max_depth + 1, one per depth, and a frame
\* recurses at most once per element, in the order of its loop, also when
\* the extractor of a sub-image returns an element that qualifies again.
C26_RecursionBounded ==
    /\ Len(stack) <= svc.max_depth + 1
    /\ \A k \in 1..Len(stack) : stack[k].depth = k - 1
    /\ \A id \in CallIds :
          LET F == CurrentFrame(id)
          IN  /\ Cardinality(ChildCalls(id)) <= Len(F.elements)
              /\ \A c \in ChildCalls(id) :
                    /\ \E j \in 1..Len(F.elements) :
                          /\ F.elements[j].element_id = calls[c].args.owner
                          /\ j < F.i \/ (j = F.i /\ ~Ended(c))
                    /\ \A c2 \in ChildCalls(id) :
                          calls[c2].args.owner = calls[c].args.owner => c2 = c

\* C26 witness: the analysis returned with max_depth 1; a frame of depth 1
\* holds an element that qualifies for recursion and was not recursed into.
C26_Witness ==
    /\ svc.max_depth = 1
    /\ result.kind = "returned"
    /\ \E c \in CallIds :
          /\ calls[c].status = "returned"
          /\ calls[c].args.depth = 1
          /\ \E j \in 1..Len(calls[c].final.elements) :
                /\ should_recurse_into_element(
                       AsExtracted(calls[c].final.elements[j]), calls[c].final.files,
                       <<calls[c].final.width, calls[c].final.height>>,
                       DEFAULT_MIN_IMAGE_SIZE, DEFAULT_MIN_IMAGE_AREA)
                /\ CallsFor(calls[c].final.elements[j].element_id) = {}

\* The extractor that ran for a frame was the table OCR.
ExtractedByOcr(F) == F.extraction \in {"ocr", "ocr_raises"}

\* C27: the sub-image of an element of type table is extracted with the
\* table OCR when a table OCR provider is configured and with the layout
\* extractor when none is; the root image and the sub-images of elements of
\* every other type are extracted with the layout extractor.
C27_ExtractorByElementType ==
    \A id \in CallIds :
        LET F == CurrentFrame(id)
        IN  F.extraction # "" =>
                (ExtractedByOcr(F) <=>
                    (/\ calls[id].args.parent_id # NoId
                     /\ OwnerElement(id).element_type = "table"
                     /\ svc.baidu))

\* C27 witness: in one tree the sub-image of a table went to the table OCR
\* and the sub-image of an image element to the layout extractor.
C27_Witness ==
    /\ svc.baidu
    /\ \E a \in CallIds, b \in CallIds :
          /\ calls[a].args.parent_id = 1 /\ calls[b].args.parent_id = 1
          /\ OwnerElement(a).element_type = "table"
          /\ CurrentFrame(a).extraction = "ocr"
          /\ OwnerElement(b).element_type = "image"
          /\ CurrentFrame(b).extraction = "layout"
    /\ CurrentFrame(1).extraction = "layout"

\* ---------------------------------------------------------------------------
\* SpecRetry: GeminiInpaintingProvider.inpaint_with_retry.  One step is one
\* try of inpaint_image under its retry decorator: the try sends its request
\* and yields an image ("image"), gets a response without an image
\* ("no_image"), or raises, before the request is sent ("raises_unsent", the
\* image conversions of lines 137-218) or after ("raises_sent").
\* ---------------------------------------------------------------------------

\* The largest max_retries argument.
MaxRetries == 3

\* stop_after_attempt(3) of the decorator of inpaint_image.
stop_after_attempt == 3

TryOutcomes == {"image", "no_image", "raises_unsent", "raises_sent"}

\* Requests a try sends to the Gemini API: generate_content_stream is called
\* once, after the images are prepared.
requests_of(outcome) == IF outcome = "raises_unsent" THEN 0 ELSE 1

\* Variant: the decorator also retries a call that returned None.
decorated_inpaint_image_retry_none(try, outcome) ==
    IF outcome = "image" THEN "return_image"
    ELSE IF try < stop_after_attempt THEN "retry"
    ELSE IF outcome = "no_image" THEN "return_none"
    ELSE "reraise"

\* What the decorated inpaint_image does after its try number `try` ended
\* with outcome: return the image, return None, try again, or let the
\* exception out (reraise=True) when the tries are used up.
decorated_inpaint_image(try, outcome) ==
    IF outcome = "image" THEN "return_image"
    ELSE IF outcome = "no_image" THEN "return_none"
    ELSE IF try < stop_after_attempt THEN "retry"
    ELSE "reraise"

\* Variant: the loop goes on after an attempt yielded an image and returns
\* the image of the last attempt.
loop_body_keep_going(attempt, ended, out) ==
    IF ended = "return_image"
    THEN [attempt |-> attempt + 1, done |-> FALSE, out |-> Returned("image")]
    ELSE [attempt |-> attempt + 1, done |-> FALSE, out |-> out]

\* The loop body of inpaint_with_retry after the call of inpaint_image ended:
\* an image is returned at once; None and an exception (caught by
\* `except Exception`) lead to the next attempt.
loop_body(attempt, ended, out) ==
    IF ended = "return_image"
    THEN [attempt |-> attempt, done |-> TRUE, out |-> Returned("image")]
    ELSE [attempt |-> attempt + 1, done |-> FALSE, out |-> out]

RetryInit ==
    /\ GeomIdle
    /\ RecIdle
    /\ TreeIdle
    /\ BatchIdle
    /\ CleanIdle
    /\ RegistryIdle
    /\ i_pc = "idle" /\ i_max_retries = 0 /\ i_attempt = 0 /\ i_try = 0
    /\ i_requests = 0 /\ i_log = <<>> /\ i_out = Pending

CallInpaintWithRetry ==
    /\ i_pc = "idle"
    /\ i_max_retries' \in 0..MaxRetries
    /\ i_pc' = "loop"
    /\ i_attempt' = 0
    /\ i_try' = 1
    /\ UNCHANGED <<i_requests, i_log, i_out, geomVars, recVars, treeVars, batchVars, cleanVars, regVars>>

\* One try of inpaint_image within `for attempt in range(max_retries)`.
TryInpaintImage ==
    /\ i_pc = "loop"
    /\ i_attempt < i_max_retries
    /\ \E outcome \in TryOutcomes :
          LET ended == decorated_inpaint_image(i_try, outcome)
              after == loop_body(i_attempt, ended, i_out)
          IN  /\ i_log' = Append(i_log, [attempt |-> i_attempt, try |-> i_try,
                                         outcome |-> outcome])
              /\ i_requests' = i_requests + requests_of(outcome)
              /\ IF ended = "retry"
                 THEN /\ i_try' = i_try + 1
                      /\ UNCHANGED <<i_attempt, i_pc, i_out>>
                 ELSE /\ i_try' = 1
                      /\ i_attempt' = after.attempt
                      /\ i_out' = after.out
                      /\ i_pc' = IF after.done THEN "done" ELSE "loop"
    /\ UNCHANGED <<i_max_retries, geomVars, recVars, treeVars, batchVars, cleanVars, regVars>>

\* The loop is over: `return None`.
LoopExhausted ==
    /\ i_pc = "loop"
    /\ i_attempt >= i_max_retries
    /\ i_pc' = "done"
    /\ i_out' = Returned(None)
    /\ UNCHANGED <<i_max_retries, i_attempt, i_try, i_requests, i_log, geomVars, recVars, treeVars, batchVars, cleanVars, regVars>>

RetryNext ==
    \/ CallInpaintWithRetry
    \/ TryInpaintImage
    \/ LoopExhausted

SpecRetry == RetryInit /\ [][RetryNext]_vars

\* The tries of attempt a, and the attempts that were started.
TriesOf(a) == {k \in 1..Len(i_log) : i_log[k].attempt = a}

AttemptsMade == {i_log[k].attempt : k \in 1..Len(i_log)}

RaisedTry(k) == i_log[k].outcome \in {"raises_unsent", "raises_sent"}

\* C28: inpaint_with_retry never raises; it makes at most max_retries
\* attempts of inpaint_image; the first attempt that yields an image ends
\* the call, which returns that image; the call returns None when every one
\* of the max_retries attempts raised or yielded no image, also when
\* max_retries is 0 and no attempt is made.
C28_RetryLoop ==
    /\ i_out.kind # "raised"
    /\ Cardinality(AttemptsMade) <= i_max_retries
    /\ \A k \in 1..Len(i_log) :
          i_log[k].outcome = "image" =>
              /\ k = Len(i_log)
              /\ i_pc = "done"
              /\ i_out = Returned("image")
    /\ i_pc = "done" =>
          \/ i_out = Returned("image") /\ i_log # <<>>
                /\ i_log[Len(i_log)].outcome = "image"
          \/ /\ i_out = Returned(None)
             /\ AttemptsMade = 0..(i_max_retries - 1)
             /\ \A k \in 1..Len(i_log) : i_log[k].outcome # "image"

\* C28 witness: with max_retries 3 the first attempt got no image, the
\* second raised on every try, the third yielded the image that is returned.
C28_Witness ==
    /\ i_pc = "done" /\ i_max_retries = 3
    /\ i_out = Returned("image")
    /\ Len(i_log) = 5
    /\ i_log[1].outcome = "no_image"
    /\ RaisedTry(2) /\ RaisedTry(3) /\ RaisedTry(4)
    /\ i_log[5].attempt = 2

\* C29: one call of inpaint_with_retry sends at most 3 * max_retries
\* requests: an attempt is tried again by the decorator, up to 3 tries, only
\* after a try that raised; a response without an image ends the attempt
\* without another try, so an attempt whose first response has no image
\* costs one request.
C29_RequestsBounded ==
    /\ i_requests <= stop_after_attempt * i_max_retries
    /\ i_requests = Cardinality({k \in 1..Len(i_log) : i_log[k].outcome # "raises_unsent"})
    /\ \A a \in AttemptsMade : Cardinality(TriesOf(a)) <= stop_after_attempt
    /\ \A k \in 1..Len(i_log) :
          /\ i_log[k].try > 1 =>
                /\ RaisedTry(k - 1)
                /\ i_log[k - 1].attempt = i_log[k].attempt
                /\ i_log[k - 1].try = i_log[k].try - 1
          /\ (i_log[k].outcome = "no_image" /\ k < Len(i_log)) =>
                /\ i_log[k + 1].attempt = i_log[k].attempt + 1
                /\ i_log[k + 1].try = 1
          /\ (i_log[k].outcome = "no_image" /\ i_log[k].try = 1) =>
                TriesOf(i_log[k].attempt) = {k}

\* C29 witness: with max_retries 2 the first attempt raised on its three
\* tries after sending, the second got a response without an image: four
\* requests.
C29_Witness ==
    /\ i_pc = "done" /\ i_max_retries = 2
    /\ Len(i_log) = 4
    /\ \A k \in 1..3 : i_log[k].outcome = "raises_sent" /\ i_log[k].attempt = 0
    /\ i_log[4].outcome = "no_image" /\ i_log[4].attempt = 1
    /\ i_requests = 4
    /\ i_out = Returned(None)

\* Box b lies inside an image of the given size, corners in order.
InBounds(b, size) ==
    /\ RLe(Flt(0), b.x0) /\ RLe(b.x0, b.x1) /\ RLe(b.x1, Flt(size[1]))
    /\ RLe(Flt(0), b.y0) /\ RLe(b.y0, b.y1) /\ RLe(b.y1, Flt(size[2]))

\* Box a lies inside box b.
BoxInside(a, b) ==
    /\ RLe(b.x0, a.x0) /\ RLe(a.x1, b.x1)
    /\ RLe(b.y0, a.y0) /\ RLe(a.y1, b.y1)

\* The image size the extractor of frame F maps local boxes with: the size
\* the table OCR reports, else the pixel size of the image.
MappingSize(F) == IF F.table_img_size # NoSize THEN F.table_img_size ELSE F.file_size

====
